---- MODULE Spec2Model ----
(***************************************************************************)
(* Hermes reverse proxy: the balancer (internal/balancer), the circuit     *)
(* breaker and its pool (internal/circuit), the passive monitor and the     *)
(* active checker (internal/health) and the proxy handler (internal/proxy)  *)
(* as state machines.                                                       *)
(*                                                                          *)
(* Backends are identified by their position in the configured slice (the  *)
(* Go code holds *Backend pointers); None (0) stands for the nil pointer.   *)
(* Every method of Backend, BaseBalancer and Breaker runs under its mutex,  *)
(* so one method call is one atomic action.                                 *)
(***************************************************************************)
EXTENDS Integers, Sequences, FiniteSets, TLC

\* ---------------------------------------------------------------- bounds
NumBackends == 3        \* length of the configured backend slice
MaxConns == 2           \* cap on Backend.Connections in the guards
MaxCalls == 5           \* cap on RoundRobin.current and on the call log
MaxThreshold == 3       \* largest failureThreshold / successThreshold drawn
MaxTimeout == 2         \* largest Breaker.timeout drawn (clock units)
MaxTicks == 4           \* how far the clock advances past its start
MaxCount == 3           \* cap on the PassiveMonitor's failure counts
NumReported == 2        \* backends whose outcomes reach the PassiveMonitor
NumCallers == 2         \* goroutines calling BreakerPool.Get concurrently
MaxGets == 4            \* cap on the BreakerPool.Get calls started
NumRequests == 2        \* requests that can be inside ServeHTTP at once
MaxRequests == 3        \* cap on the requests that enter ServeHTTP
MaxSeqRequests == 4     \* the same cap in the failover scenario
MaxRequestBody == 2     \* the handler's body limit (Buffer.maxSize), in bytes
MaxSweeps == 3          \* cap on the sweeps (checkAll calls) the Checker starts
MaxNexts == 4           \* cap on the concurrent-Next() calls that draw an idx

\* ------------------------------------------------------------- constants
None == 0               \* the nil *Backend
StateClosed == 0
StateOpen == 1
StateHalfOpen == 2
ZeroTime == 0           \* the zero time.Time a new Breaker's lastFailure holds
Second == 2             \* time.Second in clock units: the clock counts half seconds
B1 == 1                 \* the first configured backend

VARIABLES
    backends,   \* BaseBalancer.backends: sequence of Backend records
    policy,     \* which Balancer the server built: "round-robin" / "least-connections"
    current,    \* RoundRobin.current
    log,        \* history: what Next() returned, call by call, since the
                \* backend fields the policy reads last changed (or since
                \* construction): the health flags and, for least-connections,
                \* the connection counts
    fresh,      \* history: TRUE while the healthy subset is the constructed one
    breaker,    \* one Breaker record
    now,        \* the wall clock read by time.Now() / time.Since()
    brkOp,      \* history: name of the last Breaker operation
    brkRet,     \* history: what that operation returned
    brkPre,     \* history: the Breaker and the clock just before that operation
    failRun,    \* history: RecordFailure calls made in Closed since the last
                \* RecordSuccess / Reset / entry into Closed
    succRun,    \* history: RecordSuccess calls made in HalfOpen since it was entered
    openedAt,   \* history: clock value when the breaker last entered Open
    twin,       \* history: a Breaker constructed by NewBreaker at the last Reset,
                \* driven by the same calls at the same clock values
    twinOn,     \* history: TRUE once Reset has been called
    twinRet,    \* history: what the last operation returned on the twin
    resetFrom,  \* history: the state Reset was last called in (-1: never called)
    monitor,    \* the PassiveMonitor: unhealthyThreshold, failureCounts
    pmLast,     \* history: the last PassiveMonitor operation, the count and
                \* health flag it found and whether it called MarkUnhealthy
    pmRun,      \* history: per address, RecordFailure calls since the last
                \* RecordSuccess / Reset
    poolIds,    \* BreakerPool.breakers: address -> the Breaker object stored
                \* (objects are numbered as they are allocated; 0: no entry)
    caller,     \* per goroutine in BreakerPool.Get: position, address, result
    made,       \* history: per address, the Breaker objects allocated for it
    got,        \* history: per address, the Breaker objects Get has returned
    gets,       \* history: number of Get calls started
    pool,       \* the handler's BreakerPool: thresholds, timeout, breakers
    stats,      \* Handler: TotalRequests, ActiveRequests, FailedRequests
    req,        \* per request slot: position in ServeHTTP / proxyRequest and
                \* the locals the request holds
    last,       \* history: how the request that left ServeHTTP last ended
    checker,    \* the active Checker: whether it runs, thresholds, counts
    down,       \* backends whose upstream calls all fail from now on
    attempts,   \* history: per backend, upstream calls made to it while down
    run,        \* the goroutine of Checker.run: its position, whether its
                \* context is cancelled, whether ticker.C holds a tick, the
                \* probes in flight per backend, the sweeps started
    chkLast,    \* history: the last probe outcome recorded, and what it found
    chkDone,    \* history: per backend, the probe outcomes recorded
    mu,         \* Breaker.mu: the goroutine holding it (0: unlocked)
    thr,        \* per goroutine calling the Breaker: the method, its
                \* position, the writes it has still to make, its result
    committed,  \* history: the Breaker as the last Unlock left it
    openRet,    \* history: lastFailure as set by the last RecordFailure
                \* that opened the breaker and has returned (-1: none)
    nx,         \* per goroutine in RoundRobin.Next: its position, the
                \* healthy subset it collected, the idx it obtained
    handed,     \* history: the idx values obtained, in the order of the adds
    config,     \* Server.config: circuit_breaker.timeout as configured, a
                \* time.Duration in clock units
    cancels,    \* history: per backend, the upstream calls to it that ended
                \* by the client's cancellation since the last one that
                \* ended otherwise
    late,       \* history: per backend, the Next() calls in progress and the
                \* requests holding it undispatched when it last went from
                \* healthy to unhealthy, and the requests dispatched to it
                \* while unhealthy since
    rotation    \* history: the Next() calls that returned a backend, and
                \* how many of them had been made when Next() last returned
                \* nil (-1: it never did)

balVars == <<backends, policy, current, log, fresh>>
brkVars == <<breaker, now, brkOp, brkRet, brkPre, failRun, succRun, openedAt,
             twin, twinOn, twinRet, resetFrom>>
monVars == <<monitor, pmLast, pmRun>>
plVars == <<poolIds, caller, made, got, gets>>
sysVars == <<pool, stats, req, last, checker, down, attempts>>
chkVars == <<run, chkLast, chkDone>>
lkVars == <<mu, thr, committed, openRet>>
rrVars == <<nx, handed>>
cfgVars == <<config>>
hisVars == <<cancels, late, rotation>>
vars == <<backends, policy, current, log, fresh,
          breaker, now, brkOp, brkRet, brkPre, failRun, succRun, openedAt,
          twin, twinOn, twinRet, resetFrom,
          monitor, pmLast, pmRun,
          poolIds, caller, made, got, gets,
          pool, stats, req, last, checker, down, attempts,
          run, chkLast, chkDone,
          mu, thr, committed, openRet,
          nx, handed,
          config,
          cancels, late, rotation>>

\* ================================================================ Backend
NewBackend(address, weight) ==
    [Address |-> address,
     Weight |-> IF weight <= 0 THEN 1 ELSE weight,
     Healthy |-> TRUE,
     Connections |-> 0]

IsHealthy(b) == b.Healthy

SetHealthy(b, healthy) == [b EXCEPT !.Healthy = healthy]

GetConnections(b) == b.Connections

IncrementConnections(b) == [b EXCEPT !.Connections = @ + 1]

DecrementConnections(b) ==
    IF b.Connections > 0 THEN [b EXCEPT !.Connections = @ - 1] ELSE b

\* =========================================================== BaseBalancer
\* index of the first backend whose Address equals address, None if absent
RECURSIVE FindBackend(_, _, _)
FindBackend(bs, address, i) ==
    IF i > Len(bs) THEN None
    ELSE IF bs[i].Address = address THEN i
    ELSE FindBackend(bs, address, i + 1)

MarkHealthy_ByPosition(bs, address) ==
    IF address \in 1..Len(bs)
    THEN [bs EXCEPT ![address] = SetHealthy(bs[address], TRUE)] ELSE bs

MarkHealthy(bs, address) ==
    LET i == FindBackend(bs, address, 1)
    IN IF i = None THEN bs ELSE [bs EXCEPT ![i] = SetHealthy(bs[i], TRUE)]

MarkUnhealthy_Toggle(bs, address) ==
    LET i == FindBackend(bs, address, 1)
    IN IF i = None THEN bs ELSE [bs EXCEPT ![i] = SetHealthy(bs[i], ~bs[i].Healthy)]

MarkUnhealthy(bs, address) ==
    LET i == FindBackend(bs, address, 1)
    IN IF i = None THEN bs ELSE [bs EXCEPT ![i] = SetHealthy(bs[i], FALSE)]

\* the healthy backends (as positions), in configured order
RECURSIVE healthyFrom(_, _)
healthyFrom(bs, i) ==
    IF i > Len(bs) THEN <<>>
    ELSE IF IsHealthy(bs[i]) THEN <<i>> \o healthyFrom(bs, i + 1)
    ELSE healthyFrom(bs, i + 1)

healthyBackends_Unfiltered(bs) == [i \in 1..Len(bs) |-> i]

healthyBackends(bs) == healthyFrom(bs, 1)

\* ============================================================= RoundRobin
\* idx := atomic.AddUint64(&r.current, 1) - 1 is the value before the add.
\* The counter is a uint64; the guards keep it below MaxCalls, far from 2^64.
RoundRobinNext_Stuck(cur, healthy) ==
    IF Len(healthy) = 0 THEN [ret |-> None, current |-> cur]
    ELSE [ret |-> healthy[(cur % Len(healthy)) + 1], current |-> cur]

RoundRobinNext_PreIncrement(cur, healthy) ==
    IF Len(healthy) = 0 THEN [ret |-> None, current |-> cur]
    ELSE [ret |-> healthy[((cur + 1) % Len(healthy)) + 1], current |-> cur + 1]

RoundRobinNext_CountsNil(cur, healthy) ==
    IF Len(healthy) = 0 THEN [ret |-> None, current |-> cur + 1]
    ELSE [ret |-> healthy[(cur % Len(healthy)) + 1], current |-> cur + 1]

RoundRobinNext(cur, healthy) ==
    IF Len(healthy) = 0 THEN [ret |-> None, current |-> cur]
    ELSE [ret |-> healthy[(cur % Len(healthy)) + 1], current |-> cur + 1]

\* ======================================================= LeastConnections
\* the test of the selection loop: minConns == -1 || conns < minConns
Fewer_OrEqual(conns, minConns) == minConns = -1 \/ conns <= minConns

Fewer(conns, minConns) == minConns = -1 \/ conns < minConns

RECURSIVE LeastConnLoop(_, _, _, _, _)
LeastConnLoop(bs, healthy, k, minConns, selected) ==
    IF k > Len(healthy) THEN selected
    ELSE LET conns == GetConnections(bs[healthy[k]])
         IN IF Fewer(conns, minConns)
            THEN LeastConnLoop(bs, healthy, k + 1, conns, healthy[k])
            ELSE LeastConnLoop(bs, healthy, k + 1, minConns, selected)

LeastConnectionsNext(bs, healthy) ==
    IF Len(healthy) = 0 THEN None
    ELSE LeastConnLoop(bs, healthy, 1, -1, None)

\* ------------------------------------------------------- balancer actions
HealthySet(bs) == {i \in 1..Len(bs) : bs[i].Healthy}

\* the history after an operation that may have changed health flags
HealthHistory(bs2) ==
    /\ log' = IF HealthySet(bs2) = HealthySet(backends) THEN log ELSE <<>>
    /\ fresh' = (fresh /\ HealthySet(bs2) = HealthySet(backends))

\* the history after an operation that may have changed connection counts
ConnHistory(bs2) ==
    log' = IF policy = "least-connections" /\ bs2 # backends THEN <<>> ELSE log

DoNext ==
    /\ Len(log) < MaxCalls
    /\ current < MaxCalls
    /\ LET healthy == healthyBackends(backends)
           rr == RoundRobinNext(current, healthy)
           ret == IF policy = "round-robin" THEN rr.ret
                  ELSE LeastConnectionsNext(backends, healthy)
       IN /\ current' = IF policy = "round-robin" THEN rr.current ELSE current
          /\ log' = Append(log, ret)
    /\ UNCHANGED <<backends, policy, fresh>>

DoSetHealthy ==
    \E i \in 1..NumBackends, v \in BOOLEAN :
        LET bs2 == [backends EXCEPT ![i] = SetHealthy(backends[i], v)]
        IN /\ backends' = bs2
           /\ HealthHistory(bs2)
           /\ UNCHANGED <<policy, current>>

\* the address NumBackends + 1 belongs to no backend
DoMarkHealthy ==
    \E a \in 1..(NumBackends + 1) :
        LET bs2 == MarkHealthy(backends, a)
        IN /\ backends' = bs2
           /\ HealthHistory(bs2)
           /\ UNCHANGED <<policy, current>>

DoMarkUnhealthy ==
    \E a \in 1..(NumBackends + 1) :
        LET bs2 == MarkUnhealthy(backends, a)
        IN /\ backends' = bs2
           /\ HealthHistory(bs2)
           /\ UNCHANGED <<policy, current>>

DoIncrementConnections ==
    \E i \in 1..NumBackends :
        /\ backends[i].Connections < MaxConns
        /\ LET bs2 == [backends EXCEPT ![i] = IncrementConnections(backends[i])]
           IN backends' = bs2 /\ ConnHistory(bs2)
        /\ UNCHANGED <<policy, current, fresh>>

DoDecrementConnections ==
    \E i \in 1..NumBackends :
        /\ LET bs2 == [backends EXCEPT ![i] = DecrementConnections(backends[i])]
           IN backends' = bs2 /\ ConnHistory(bs2)
        /\ UNCHANGED <<policy, current, fresh>>

\* ------------------------------------------- concurrent RoundRobin.Next
\* Next collects the healthy subset (under the balancer's read lock), then
\* adds one to the counter atomically, then indexes the subset it collected.
IdleNext == [pc |-> "idle", snap |-> <<>>, idx |-> 0, ret |-> None]

\* healthy := r.healthyBackends(); return nil when it is empty
NextCollect(g) ==
    /\ nx[g].pc = "idle"
    /\ Len(handed) + Cardinality({h \in DOMAIN nx : nx[h].pc = "add"}) < MaxNexts
    /\ LET healthy == healthyBackends(backends)
       IN nx' = [nx EXCEPT ![g] =
                   IF Len(healthy) = 0 THEN IdleNext
                   ELSE [IdleNext EXCEPT !.pc = "add", !.snap = healthy]]
    /\ UNCHANGED <<backends, policy, current, log, fresh, handed>>

\* idx := atomic.AddUint64(&r.current, 1) - 1; the backend the call will
\* return is settled here and goes to the log
NextAdd(g) ==
    /\ nx[g].pc = "add"
    /\ LET rr == RoundRobinNext(current, nx[g].snap)
       IN /\ current' = rr.current
          /\ nx' = [nx EXCEPT ![g].pc = "index", ![g].idx = rr.current - 1,
                               ![g].ret = rr.ret]
          /\ handed' = Append(handed, rr.current - 1)
          /\ log' = Append(log, rr.ret)
    /\ UNCHANGED <<backends, policy, fresh>>

\* return healthy[idx % uint64(len(healthy))]
NextIndex(g) ==
    /\ nx[g].pc = "index"
    /\ nx' = [nx EXCEPT ![g] = IdleNext]
    /\ UNCHANGED <<backends, policy, current, log, fresh, handed>>

\* ================================================================ Breaker
NewBreaker(failureThreshold, successThreshold, timeout) ==
    [state |-> StateClosed,
     failureThreshold |-> failureThreshold,
     successThreshold |-> successThreshold,
     timeout |-> timeout,
     failures |-> 0,
     successes |-> 0,
     lastFailure |-> ZeroTime]

\* time.Since(t) at clock value clock
Since(clock, t) == clock - t

\* Allow: the breaker afterwards and the returned bool
Allow_NeverHalfOpen(b, clock) ==
    IF b.state = StateClosed THEN [b |-> b, ret |-> TRUE]
    ELSE IF b.state = StateOpen THEN [b |-> b, ret |-> FALSE]
    ELSE IF b.state = StateHalfOpen THEN [b |-> b, ret |-> TRUE]
    ELSE [b |-> b, ret |-> FALSE]

Allow_Early(b, clock) ==
    IF b.state = StateClosed THEN [b |-> b, ret |-> TRUE]
    ELSE IF b.state = StateOpen THEN
        IF Since(clock, b.lastFailure) + 1 >= b.timeout
        THEN [b |-> [b EXCEPT !.state = StateHalfOpen, !.successes = 0],
              ret |-> TRUE]
        ELSE [b |-> b, ret |-> FALSE]
    ELSE IF b.state = StateHalfOpen THEN [b |-> b, ret |-> TRUE]
    ELSE [b |-> b, ret |-> FALSE]

Allow_CountsRejection(b, clock) ==
    IF b.state = StateClosed THEN [b |-> b, ret |-> TRUE]
    ELSE IF b.state = StateOpen THEN
        IF Since(clock, b.lastFailure) >= b.timeout
        THEN [b |-> [b EXCEPT !.state = StateHalfOpen, !.successes = 0],
              ret |-> TRUE]
        ELSE [b |-> [b EXCEPT !.failures = @ + 1], ret |-> FALSE]
    ELSE IF b.state = StateHalfOpen THEN [b |-> b, ret |-> TRUE]
    ELSE [b |-> b, ret |-> FALSE]

Allow(b, clock) ==
    IF b.state = StateClosed THEN [b |-> b, ret |-> TRUE]
    ELSE IF b.state = StateOpen THEN
        IF Since(clock, b.lastFailure) >= b.timeout
        THEN [b |-> [b EXCEPT !.state = StateHalfOpen, !.successes = 0],
              ret |-> TRUE]
        ELSE [b |-> b, ret |-> FALSE]
    ELSE IF b.state = StateHalfOpen THEN [b |-> b, ret |-> TRUE]
    ELSE [b |-> b, ret |-> FALSE]

RecordSuccess_KeepFailures(b) ==
    IF b.state = StateClosed THEN b
    ELSE IF b.state = StateHalfOpen THEN
        LET b1 == [b EXCEPT !.successes = @ + 1]
        IN IF b1.successes >= b1.successThreshold
           THEN [b1 EXCEPT !.state = StateClosed, !.failures = 0]
           ELSE b1
    ELSE b

RecordSuccess_LateClose(b) ==
    IF b.state = StateClosed THEN [b EXCEPT !.failures = 0]
    ELSE IF b.state = StateHalfOpen THEN
        LET b1 == [b EXCEPT !.successes = @ + 1]
        IN IF b1.successes > b1.successThreshold
           THEN [b1 EXCEPT !.state = StateClosed, !.failures = 0]
           ELSE b1
    ELSE b

RecordSuccess(b) ==
    IF b.state = StateClosed THEN [b EXCEPT !.failures = 0]
    ELSE IF b.state = StateHalfOpen THEN
        LET b1 == [b EXCEPT !.successes = @ + 1]
        IN IF b1.successes >= b1.successThreshold
           THEN [b1 EXCEPT !.state = StateClosed, !.failures = 0]
           ELSE b1
    ELSE b

RecordFailure_StaleLastFailure(b, clock) ==
    IF b.state = StateClosed THEN
        LET b1 == [b EXCEPT !.failures = @ + 1]
        IN IF b1.failures >= b1.failureThreshold
           THEN [b1 EXCEPT !.state = StateOpen, !.lastFailure = clock]
           ELSE b1
    ELSE IF b.state = StateHalfOpen THEN
        [b EXCEPT !.state = StateOpen, !.successes = 0]
    ELSE b

RecordFailure_LateOpen(b, clock) ==
    IF b.state = StateClosed THEN
        LET b1 == [b EXCEPT !.failures = @ + 1]
        IN IF b1.failures > b1.failureThreshold
           THEN [b1 EXCEPT !.state = StateOpen, !.lastFailure = clock]
           ELSE b1
    ELSE IF b.state = StateHalfOpen THEN
        [b EXCEPT !.state = StateOpen, !.lastFailure = clock, !.successes = 0]
    ELSE b

RecordFailure_ExtendsOpen(b, clock) ==
    IF b.state = StateClosed THEN
        LET b1 == [b EXCEPT !.failures = @ + 1]
        IN IF b1.failures >= b1.failureThreshold
           THEN [b1 EXCEPT !.state = StateOpen, !.lastFailure = clock]
           ELSE b1
    ELSE IF b.state = StateHalfOpen THEN
        [b EXCEPT !.state = StateOpen, !.lastFailure = clock, !.successes = 0]
    ELSE [b EXCEPT !.lastFailure = clock]

RecordFailure(b, clock) ==
    IF b.state = StateClosed THEN
        LET b1 == [b EXCEPT !.failures = @ + 1]
        IN IF b1.failures >= b1.failureThreshold
           THEN [b1 EXCEPT !.state = StateOpen, !.lastFailure = clock]
           ELSE b1
    ELSE IF b.state = StateHalfOpen THEN
        [b EXCEPT !.state = StateOpen, !.lastFailure = clock, !.successes = 0]
    ELSE b

State(b) == b.state

Reset_KeepFailures(b) == [b EXCEPT !.state = StateClosed, !.successes = 0]

Reset(b) == [b EXCEPT !.state = StateClosed, !.failures = 0, !.successes = 0]

\* -------------------------------------------------------- breaker actions
\* the clock the process starts at: later than the zero time by more than
\* any timeout
StartTime == ZeroTime + MaxTimeout + 1

Snapshot == [b |-> breaker, now |-> now]

DoAllow ==
    LET r == Allow(breaker, now)
        tr == Allow(twin, now)
    IN /\ breaker' = r.b
       /\ brkOp' = "Allow"
       /\ brkRet' = r.ret
       /\ brkPre' = Snapshot
       /\ succRun' = IF breaker.state = StateOpen /\ r.b.state = StateHalfOpen
                     THEN 0 ELSE succRun
       /\ twin' = IF twinOn THEN tr.b ELSE twin
       /\ twinRet' = IF twinOn THEN tr.ret ELSE r.ret
       /\ UNCHANGED <<now, failRun, openedAt, twinOn, resetFrom>>

DoRecordSuccess ==
    LET b2 == RecordSuccess(breaker)
    IN /\ breaker' = b2
       /\ brkOp' = "RecordSuccess"
       /\ brkRet' = "void"
       /\ brkPre' = Snapshot
       /\ failRun' = IF breaker.state = StateClosed \/ b2.state = StateClosed
                     THEN 0 ELSE failRun
       /\ succRun' = IF breaker.state = StateHalfOpen THEN succRun + 1 ELSE succRun
       /\ twin' = IF twinOn THEN RecordSuccess(twin) ELSE twin
       /\ twinRet' = "void"
       /\ UNCHANGED <<now, openedAt, twinOn, resetFrom>>

DoRecordFailure ==
    LET b2 == RecordFailure(breaker, now)
    IN /\ breaker' = b2
       /\ brkOp' = "RecordFailure"
       /\ brkRet' = "void"
       /\ brkPre' = Snapshot
       /\ failRun' = IF breaker.state = StateClosed THEN failRun + 1 ELSE failRun
       /\ openedAt' = IF breaker.state # StateOpen /\ b2.state = StateOpen
                      THEN now ELSE openedAt
       /\ twin' = IF twinOn THEN RecordFailure(twin, now) ELSE twin
       /\ twinRet' = "void"
       /\ UNCHANGED <<now, succRun, twinOn, resetFrom>>

DoState ==
    /\ brkOp' = "State"
    /\ brkRet' = State(breaker)
    /\ brkPre' = Snapshot
    /\ twinRet' = IF twinOn THEN State(twin) ELSE State(breaker)
    /\ UNCHANGED <<breaker, now, failRun, succRun, openedAt, twin, twinOn,
                 resetFrom>>

DoReset ==
    /\ breaker' = Reset(breaker)
    /\ brkOp' = "Reset"
    /\ brkRet' = "void"
    /\ brkPre' = Snapshot
    /\ failRun' = 0
    /\ twin' = NewBreaker(breaker.failureThreshold, breaker.successThreshold,
                          breaker.timeout)
    /\ twinOn' = TRUE
    /\ twinRet' = "void"
    /\ resetFrom' = breaker.state
    /\ UNCHANGED <<now, succRun, openedAt>>

\* time passes
Tick ==
    /\ now < StartTime + MaxTicks
    /\ now' = now + 1
    /\ UNCHANGED <<breaker, brkOp, brkRet, brkPre, failRun, succRun, openedAt,
                   twin, twinOn, twinRet, resetFrom>>

\* ------------------------------------------- the Breaker under its mutex
\* Goroutines call Allow, RecordSuccess and RecordFailure on one Breaker.
\* Each method locks b.mu, reads the fields (and the clock), makes its
\* assignments one after the other, and unlocks on return.

\* b.mu.Lock() goes through
CanLock_NoExclusion(holder) == TRUE

CanLock(holder) == holder = 0

\* the order in which each method assigns the fields
AssignOrder(op) ==
    IF op = "Allow" THEN <<"state", "successes">>
    ELSE IF op = "RecordSuccess" THEN <<"successes", "state", "failures">>
    ELSE <<"failures", "state", "lastFailure", "successes">>

\* the method's result on b at clock value clock: the Breaker afterwards and
\* the returned value
Method(op, b, clock) ==
    IF op = "Allow" THEN Allow(b, clock)
    ELSE IF op = "RecordSuccess" THEN [b |-> RecordSuccess(b), ret |-> TRUE]
    ELSE [b |-> RecordFailure(b, clock), ret |-> TRUE]

\* the assignments that take b to b2, in the method's order
Writes(op, b, b2) == SelectSeq(AssignOrder(op), LAMBDA f : b[f] # b2[f])

IdleThread ==
    [pc |-> "idle", op |-> "", todo |-> <<>>, goal |-> NewBreaker(0, 0, 0),
     ret |-> TRUE, after |-> -1]

\* for an Allow call, the opening RecordFailure that had returned when the
\* call started (history, kept in the goroutine's record)

\* goroutine g calls the method op
Call(g, op) ==
    /\ thr[g].pc = "idle"
    /\ thr' = [thr EXCEPT ![g] =
                 [IdleThread EXCEPT !.pc = "lock", !.op = op,
                                    !.after = IF op = "Allow" THEN openRet
                                              ELSE -1]]
    /\ UNCHANGED <<breaker, now, mu, committed, openRet>>

\* g gets the mutex and evaluates the method's switch
Lock(g) ==
    /\ thr[g].pc = "lock"
    /\ CanLock(mu)
    /\ mu' = g
    /\ LET r == Method(thr[g].op, breaker, now)
       IN thr' = [thr EXCEPT ![g].pc = "write",
                             ![g].todo = Writes(thr[g].op, breaker, r.b),
                             ![g].goal = r.b,
                             ![g].ret = r.ret]
    /\ UNCHANGED <<breaker, now, committed, openRet>>

\* g makes its next assignment
Write(g) ==
    /\ thr[g].pc = "write"
    /\ thr[g].todo # <<>>
    /\ LET f == Head(thr[g].todo)
       IN breaker' = [breaker EXCEPT ![f] = thr[g].goal[f]]
    /\ thr' = [thr EXCEPT ![g].todo = Tail(@)]
    /\ UNCHANGED <<now, mu, committed, openRet>>

\* the deferred b.mu.Unlock() runs and the method returns
Unlock(g) ==
    /\ thr[g].pc = "write"
    /\ thr[g].todo = <<>>
    /\ mu' = IF mu = g THEN 0 ELSE mu
    /\ committed' = breaker
    /\ openRet' = IF /\ thr[g].op = "RecordFailure"
                     /\ thr[g].goal.state = StateOpen
                     /\ committed.state # StateOpen
                  THEN thr[g].goal.lastFailure ELSE openRet
    /\ thr' = [thr EXCEPT ![g] = IdleThread]
    /\ UNCHANGED <<breaker, now>>

\* time passes for the goroutines; only Allow on an Open breaker reads how
\* much has passed
LockTick ==
    /\ now < StartTime + MaxTicks
    /\ breaker.state = StateOpen
    /\ now' = now + 1
    /\ UNCHANGED <<breaker, mu, thr, committed, openRet>>

\* ========================================================= PassiveMonitor
\* failureCounts is a Go map: an address never written reads as 0
NewPassiveMonitor(unhealthyThreshold) ==
    [unhealthyThreshold |-> unhealthyThreshold,
     failureCounts |-> [a \in 1..NumBackends |-> 0]]

PassiveRecordSuccess_Keep(m, address) == m

PassiveRecordSuccess(m, address) ==
    [m EXCEPT !.failureCounts[address] = 0]

\* RecordFailure: the monitor and the balancer's backends afterwards, and
\* whether balancer.MarkUnhealthy(address) was called
PassiveRecordFailure_Late(m, bs, address) ==
    LET m2 == [m EXCEPT !.failureCounts[address] = @ + 1]
        hit == m2.failureCounts[address] > m2.unhealthyThreshold
    IN [m |-> m2,
        backends |-> IF hit THEN MarkUnhealthy(bs, address) ELSE bs,
        marked |-> hit]

PassiveRecordFailure_NoMark(m, bs, address) ==
    [m |-> [m EXCEPT !.failureCounts[address] = @ + 1],
     backends |-> bs,
     marked |-> FALSE]

PassiveRecordFailure_ResetsOnMark(m, bs, address) ==
    LET m2 == [m EXCEPT !.failureCounts[address] = @ + 1]
        hit == m2.failureCounts[address] >= m2.unhealthyThreshold
    IN [m |-> IF hit THEN [m2 EXCEPT !.failureCounts[address] = 0] ELSE m2,
        backends |-> IF hit THEN MarkUnhealthy(bs, address) ELSE bs,
        marked |-> hit]

PassiveRecordFailure(m, bs, address) ==
    LET m2 == [m EXCEPT !.failureCounts[address] = @ + 1]
        hit == m2.failureCounts[address] >= m2.unhealthyThreshold
    IN [m |-> m2,
        backends |-> IF hit THEN MarkUnhealthy(bs, address) ELSE bs,
        marked |-> hit]

PassiveReset(m, address) ==
    [m EXCEPT !.failureCounts[address] = 0]

\* -------------------------------------------------------- monitor actions
PMQuiet(op, a) ==
    [op |-> op, address |-> a, before |-> 0, wasHealthy |-> TRUE,
     marked |-> FALSE]

PMRecordSuccess ==
    \E a \in 1..NumReported :
        /\ monitor' = PassiveRecordSuccess(monitor, a)
        /\ pmLast' = PMQuiet("RecordSuccess", a)
        /\ pmRun' = [pmRun EXCEPT ![a] = 0]
        /\ UNCHANGED balVars

PMRecordFailure ==
    \E a \in 1..NumReported :
        /\ monitor.failureCounts[a] < MaxCount
        /\ LET r == PassiveRecordFailure(monitor, backends, a)
           IN /\ monitor' = r.m
              /\ backends' = r.backends
              /\ HealthHistory(r.backends)
              /\ pmLast' = [op |-> "RecordFailure", address |-> a,
                            before |-> monitor.failureCounts[a],
                            wasHealthy |-> backends[a].Healthy,
                            marked |-> r.marked]
        /\ pmRun' = [pmRun EXCEPT ![a] = @ + 1]
        /\ UNCHANGED <<policy, current>>

PMReset ==
    \E a \in 1..NumReported :
        /\ monitor' = PassiveReset(monitor, a)
        /\ pmLast' = PMQuiet("Reset", a)
        /\ pmRun' = [pmRun EXCEPT ![a] = 0]
        /\ UNCHANGED balVars

\* the active checker sets a health flag while the monitor keeps its counts
PMSetHealthy ==
    \E a \in 1..NumReported, v \in BOOLEAN :
        LET bs2 == [backends EXCEPT ![a] = SetHealthy(backends[a], v)]
        IN /\ backends' = bs2
           /\ HealthHistory(bs2)
           /\ pmLast' = PMQuiet("SetHealthy", a)
           /\ UNCHANGED <<policy, current, monitor, pmRun>>

\* ============================================================ BreakerPool
NoBreaker == 0          \* the map has no entry for the address

\* Get, first critical section (RLock): the lookup
GetRead(ids, address) ==
    [exists |-> ids[address] # NoBreaker, breaker |-> ids[address]]

\* Get, second critical section (Lock), entered when the lookup missed:
\* re-check, then allocate the Breaker numbered newId and store it
GetLocked_NoRecheck(ids, address, newId) ==
    [ids |-> [ids EXCEPT ![address] = newId], breaker |-> newId,
     created |-> TRUE]

GetLocked(ids, address, newId) ==
    IF ids[address] # NoBreaker
    THEN [ids |-> ids, breaker |-> ids[address], created |-> FALSE]
    ELSE [ids |-> [ids EXCEPT ![address] = newId], breaker |-> newId,
          created |-> TRUE]

\* ----------------------------------------------------------- pool actions
\* the number the next allocated Breaker gets
NewId == 1 + Cardinality(UNION {made[a] : a \in 1..NumBackends})

IdleCaller == [pc |-> "idle", address |-> 0, ret |-> NoBreaker]

GetStart ==
    \E c \in 1..NumCallers, a \in 1..NumBackends :
        /\ caller[c].pc = "idle"
        /\ gets < MaxGets
        /\ LET r == GetRead(poolIds, a)
           IN /\ caller' = [caller EXCEPT ![c] =
                    IF r.exists
                    THEN [pc |-> "idle", address |-> a, ret |-> r.breaker]
                    ELSE [pc |-> "create", address |-> a, ret |-> NoBreaker]]
              /\ got' = IF r.exists
                        THEN [got EXCEPT ![a] = @ \cup {r.breaker}] ELSE got
        /\ gets' = gets + 1
        /\ UNCHANGED <<poolIds, made>>

GetCreate ==
    \E c \in 1..NumCallers :
        /\ caller[c].pc = "create"
        /\ LET a == caller[c].address
               r == GetLocked(poolIds, a, NewId)
           IN /\ poolIds' = r.ids
              /\ caller' = [caller EXCEPT ![c] =
                    [pc |-> "idle", address |-> a, ret |-> r.breaker]]
              /\ made' = IF r.created
                         THEN [made EXCEPT ![a] = @ \cup {r.breaker}] ELSE made
              /\ got' = [got EXCEPT ![a] = @ \cup {r.breaker}]
        /\ UNCHANGED gets

\* ================================================================ Checker
NewChecker(unhealthyThreshold, healthyThreshold) ==
    [unhealthyThreshold |-> unhealthyThreshold,
     healthyThreshold |-> healthyThreshold,
     failureCounts |-> [a \in 1..NumReported |-> 0],
     successCounts |-> [a \in 1..NumReported |-> 0]]

\* recordFailure / recordSuccess of a probe of the backend at position i:
\* the checker and the balancer's backends afterwards
CheckerRecordFailure(c, bs, i) ==
    LET c2 == [c EXCEPT !.successCounts[i] = 0, !.failureCounts[i] = @ + 1]
    IN [c |-> c2,
        backends |->
            IF c2.failureCounts[i] >= c2.unhealthyThreshold /\ IsHealthy(bs[i])
            THEN [bs EXCEPT ![i] = SetHealthy(bs[i], FALSE)] ELSE bs]

CheckerRecordSuccess_KeepFailures(c, bs, i) ==
    LET c2 == [c EXCEPT !.successCounts[i] = @ + 1]
    IN [c |-> c2,
        backends |->
            IF c2.successCounts[i] >= c2.healthyThreshold /\ ~IsHealthy(bs[i])
            THEN [bs EXCEPT ![i] = SetHealthy(bs[i], TRUE)] ELSE bs]

CheckerRecordSuccess_Exact(c, bs, i) ==
    LET c2 == [c EXCEPT !.failureCounts[i] = 0, !.successCounts[i] = @ + 1]
    IN [c |-> c2,
        backends |->
            IF c2.successCounts[i] = c2.healthyThreshold /\ ~IsHealthy(bs[i])
            THEN [bs EXCEPT ![i] = SetHealthy(bs[i], TRUE)] ELSE bs]

CheckerRecordSuccess(c, bs, i) ==
    LET c2 == [c EXCEPT !.failureCounts[i] = 0, !.successCounts[i] = @ + 1]
    IN [c |-> c2,
        backends |->
            IF c2.successCounts[i] >= c2.healthyThreshold /\ ~IsHealthy(bs[i])
            THEN [bs EXCEPT ![i] = SetHealthy(bs[i], TRUE)] ELSE bs]

\* ---------------------------------------------------------- checker loop
\* Start runs Checker.run in a goroutine of its own: the ticker is created,
\* checkAll runs once, then the loop selects between ctx.Done() and ticker.C.
\* checkAll starts one checkBackend goroutine per backend and waits for all
\* of them (sync.WaitGroup).
NewRun ==
    [pc |-> "new", cancelled |-> FALSE, tick |-> FALSE,
     probing |-> [a \in 1..NumReported |-> 0], sweeps |-> 0]

\* wg.Wait() returns
Joined_NoWait(probing) == TRUE

Joined(probing) == \A a \in DOMAIN probing : probing[a] = 0

\* the cases of the select statement that are ready; Go picks one of the
\* ready cases at random
SelectCases_IgnoreDone(r) == IF r.tick THEN {"tick"} ELSE {}

SelectCases(r) ==
    (IF r.cancelled THEN {"done"} ELSE {}) \cup (IF r.tick THEN {"tick"} ELSE {})

\* checkAll up to wg.Wait(): one probe per backend is started
StartSweep(r, bs) ==
    [r EXCEPT !.pc = "sweep",
              !.probing = [a \in DOMAIN r.probing |->
                             IF a \in 1..Len(bs) THEN r.probing[a] + 1
                             ELSE r.probing[a]],
              !.sweeps = @ + 1]

NoProbe == [address |-> 0, ok |-> FALSE, wasHealthy |-> TRUE]

\* Checker.Start: go c.run(ctx), up to the wg.Wait() of the initial checkAll
ChkStart ==
    /\ checker.on
    /\ run.pc = "new"
    /\ run' = StartSweep(run, backends)
    /\ UNCHANGED <<backends, checker, chkLast, chkDone>>

\* checkBackend ends for backend i: the probe succeeded or failed, the
\* outcome is recorded, wg.Done() runs
CheckBackend(i, ok) ==
    /\ run.probing[i] > 0
    /\ LET res == IF ok THEN CheckerRecordSuccess(checker.c, backends, i)
                  ELSE CheckerRecordFailure(checker.c, backends, i)
       IN /\ checker' = [checker EXCEPT !.c = res.c]
          /\ backends' = res.backends
    /\ run' = [run EXCEPT !.probing[i] = @ - 1]
    /\ chkLast' = [address |-> i, ok |-> ok, wasHealthy |-> backends[i].Healthy]
    /\ chkDone' = [chkDone EXCEPT ![i] = @ + 1]

\* wg.Wait() returns and checkAll with it: the loop is at its select
Join ==
    /\ run.pc = "sweep"
    /\ Joined(run.probing)
    /\ run' = [run EXCEPT !.pc = "select"]
    /\ UNCHANGED <<backends, checker, chkLast, chkDone>>

\* the ticker fires; ticker.C holds one tick at most, and the deferred
\* ticker.Stop() ends the ticks when run returns
TickFire ==
    /\ run.pc \in {"sweep", "select"}
    /\ ~run.tick
    /\ run' = [run EXCEPT !.tick = TRUE]
    /\ UNCHANGED <<backends, checker, chkLast, chkDone>>

\* case <-ticker.C: c.checkAll(), up to its wg.Wait()
SelectTick ==
    /\ run.pc = "select"
    /\ "tick" \in SelectCases(run)
    /\ run.sweeps < MaxSweeps
    /\ run' = StartSweep([run EXCEPT !.tick = FALSE], backends)
    /\ UNCHANGED <<backends, checker, chkLast, chkDone>>

\* case <-ctx.Done(): return
SelectDone ==
    /\ run.pc = "select"
    /\ "done" \in SelectCases(run)
    /\ run' = [run EXCEPT !.pc = "returned", !.tick = FALSE]
    /\ UNCHANGED <<backends, checker, chkLast, chkDone>>

\* Checker.Stop after Start, or the cancellation of the context Start was
\* given (before or after Start)
Cancel ==
    /\ checker.on
    /\ ~run.cancelled
    /\ run' = [run EXCEPT !.cancelled = TRUE]
    /\ UNCHANGED <<backends, checker, chkLast, chkDone>>

\* PassiveMonitor.RecordFailure reaches its threshold for address a while the
\* checker runs: balancer.MarkUnhealthy(a)
PassiveMark(a) ==
    /\ backends' = MarkUnhealthy(backends, a)
    /\ UNCHANGED <<checker, run, chkLast, chkDone>>

\* ================================================================= Buffer
\* a request body: its length in bytes and the number of bytes the reader
\* delivers before it fails (NoFail: it delivers them all)
NoFail == -1

Body(len, failAt) == [len |-> len, failAt |-> failAt]

Bodies ==
    {Body(n, NoFail) : n \in 0..(MaxRequestBody + 2)}
        \cup {b \in [len : 1..(MaxRequestBody + 2),
                     failAt : 0..(MaxRequestBody + 1)] : b.failAt < b.len}

\* BufferRequest reads through io.LimitReader(r.Body, maxSize + 1)
BufferRequest_OffByOne(body, maxSize) ==
    LET limit == maxSize + 1
        n == IF body.len < limit THEN body.len ELSE limit
    IN IF body.failAt # NoFail /\ body.failAt < n
       THEN [err |-> "failed to buffer request body", n |-> body.failAt]
       ELSE IF n >= maxSize THEN [err |-> "request body too large", n |-> n]
       ELSE [err |-> "", n |-> n]

BufferRequest(body, maxSize) ==
    LET limit == maxSize + 1
        n == IF body.len < limit THEN body.len ELSE limit
    IN IF body.failAt # NoFail /\ body.failAt < n
       THEN [err |-> "failed to buffer request body", n |-> body.failAt]
       ELSE IF n > maxSize THEN [err |-> "request body too large", n |-> n]
       ELSE [err |-> "", n |-> n]

\* ================================================================ Handler
StatusOK == 200
StatusNotFound == 404
StatusInternalServerError == 500
StatusBadGateway == 502
StatusRequestEntityTooLarge == 413

\* what becomes of a dispatched request: the proxied request cannot be built
\* (no upstream call is made), the transport fails, the client goes away (the
\* request context is cancelled), or a response arrives with some status,
\* whose body may then fail to stream
Outcome(kind, status, streamErr) ==
    [kind |-> kind, status |-> status, streamErr |-> streamErr]

NoOutcome == Outcome("none", 0, FALSE)

Outcomes ==
    {Outcome("build", 0, FALSE), Outcome("error", 0, FALSE),
     Outcome("cancel", 0, FALSE)}
        \cup {Outcome("response", st, e) :
                st \in {StatusOK, StatusNotFound, StatusInternalServerError,
                        StatusBadGateway},
                e \in BOOLEAN}

\* proxyReq, err := http.NewRequestWithContext(...); err != nil
BuildFailed(o) == o.kind = "build"

\* resp, err := h.client.Do(proxyReq); err != nil
UpstreamFailed_On5xx(o) ==
    o.kind \in {"error", "cancel"}
        \/ (o.kind = "response" /\ o.status >= StatusInternalServerError)

UpstreamFailed_ErrorOnly(o) == o.kind = "error"

UpstreamFailed(o) == o.kind \in {"error", "cancel"}

\* int64(d.Seconds()) for a time.Duration d >= 0: the whole seconds in d
Seconds(d) == d \div Second

\* the pool keeps time.Duration(timeoutSeconds) * time.Second
NewBreakerPool(failureThreshold, successThreshold, timeoutSeconds) ==
    [failureThreshold |-> failureThreshold,
     successThreshold |-> successThreshold,
     timeout |-> timeoutSeconds * Second,
     breakers |-> <<>>]

\* BreakerPool.Get as one step: the pool afterwards (the result is
\* breakers[address])
PoolGet(p, address) ==
    IF address \in DOMAIN p.breakers THEN p
    ELSE [p EXCEPT !.breakers = @ @@ (address :>
            NewBreaker(p.failureThreshold, p.successThreshold, p.timeout))]

\* atomic.AddInt64 on the handler's counters at entry and, deferred, at exit
EnterHandler(st) ==
    [st EXCEPT !.TotalRequests = @ + 1, !.ActiveRequests = @ + 1]

LeaveHandler_Leak(st, failed) ==
    IF failed THEN [st EXCEPT !.FailedRequests = @ + 1]
    ELSE [st EXCEPT !.ActiveRequests = @ - 1]

LeaveHandler_CountsAll(st, failed) ==
    [st EXCEPT !.ActiveRequests = @ - 1, !.FailedRequests = @ + 1]

LeaveHandler(st, failed) ==
    [st EXCEPT !.ActiveRequests = @ - 1,
               !.FailedRequests = IF failed THEN @ + 1 ELSE @]

\* backend.IncrementConnections() and the deferred DecrementConnections()
Dispatch(bs, i) == [bs EXCEPT ![i] = IncrementConnections(bs[i])]

Release_OnSuccessOnly(bs, i, failed) ==
    IF failed THEN bs ELSE [bs EXCEPT ![i] = DecrementConnections(bs[i])]

Release(bs, i, failed) == [bs EXCEPT ![i] = DecrementConnections(bs[i])]

IdleRequest ==
    [pc |-> "idle", body |-> Body(0, NoFail), snap |-> <<>>, backend |-> None,
     picks |-> 0, calls |-> 0]

NoLast ==
    [status |-> 0, why |-> "", outcome |-> NoOutcome, backend |-> None,
     picks |-> 0, calls |-> 0]

Finish_CancelSkipsExit(r, status, why, failed, o) ==
    /\ req' = [req EXCEPT ![r] = IdleRequest]
    /\ last' = [status |-> status, why |-> why, outcome |-> o,
                backend |-> req[r].backend, picks |-> req[r].picks,
                calls |-> IF o.kind \in {"none", "build"} THEN req[r].calls
                          ELSE req[r].calls + 1]
    /\ stats' = IF o.kind = "cancel" THEN stats ELSE LeaveHandler(stats, failed)

\* ServeHTTP returns: the response status is written, the deferred decrement
\* of ActiveRequests runs
Finish(r, status, why, failed, o) ==
    /\ req' = [req EXCEPT ![r] = IdleRequest]
    /\ last' = [status |-> status, why |-> why, outcome |-> o,
                backend |-> req[r].backend, picks |-> req[r].picks,
                calls |-> IF o.kind \in {"none", "build"} THEN req[r].calls
                          ELSE req[r].calls + 1]
    /\ stats' = LeaveHandler(stats, failed)

\* -------------------------------------------------------- handler actions
\* a request with the given body arrives
Enter(r, body) ==
    /\ req[r].pc = "idle"
    /\ req' = [req EXCEPT ![r] = [IdleRequest EXCEPT !.pc = "buffer",
                                                    !.body = body]]
    /\ stats' = EnterHandler(stats)
    /\ UNCHANGED <<backends, current, pool, last, monitor, checker, down,
                   attempts>>

\* the body is buffered when r.Body != nil && r.ContentLength != 0
ReadBody(r) ==
    /\ req[r].pc = "buffer"
    /\ LET res == IF req[r].body.len # 0
                  THEN BufferRequest(req[r].body, MaxRequestBody)
                  ELSE [err |-> "", n |-> 0]
       IN IF res.err # ""
          THEN Finish(r, StatusRequestEntityTooLarge, res.err, FALSE, NoOutcome)
          ELSE /\ req' = [req EXCEPT ![r].pc = "next",
                                     ![r].body = Body(res.n, NoFail)]
               /\ UNCHANGED <<stats, last>>
    /\ UNCHANGED <<backends, current, pool, monitor, checker, down, attempts>>

\* Next(), first half: the healthy subset is collected under the read lock
TakeSnapshot(r) ==
    /\ req[r].pc = "next"
    /\ req' = [req EXCEPT ![r].pc = "pick",
                          ![r].snap = healthyBackends(backends)]
    /\ UNCHANGED <<backends, current, pool, stats, last, monitor, checker,
                   down, attempts>>

\* Next(), second half: a backend of the collected subset is chosen
Pick(r) ==
    /\ req[r].pc = "pick"
    /\ current < MaxCalls
    /\ LET rr == RoundRobinNext(current, req[r].snap)
           ret == IF policy = "round-robin" THEN rr.ret
                  ELSE LeastConnectionsNext(backends, req[r].snap)
       IN /\ current' = IF policy = "round-robin" THEN rr.current ELSE current
          /\ IF ret = None
             THEN /\ Finish(r, StatusBadGateway, "no healthy backends available",
                            TRUE, NoOutcome)
             ELSE /\ req' = [req EXCEPT ![r].pc = "admit", ![r].backend = ret,
                                        ![r].snap = <<>>, ![r].picks = @ + 1]
                  /\ UNCHANGED <<stats, last>>
    /\ UNCHANGED <<backends, pool, monitor, checker, down, attempts>>

\* breakerPool.Get(backend.Address), breaker.Allow(), and on admission
\* backend.IncrementConnections()
Admit(r) ==
    /\ req[r].pc = "admit"
    /\ LET a == req[r].backend
           p1 == PoolGet(pool, a)
           al == Allow(p1.breakers[a], now)
       IN /\ pool' = [p1 EXCEPT !.breakers[a] = al.b]
          /\ IF al.ret
             THEN /\ backends' = Dispatch(backends, a)
                  /\ req' = [req EXCEPT ![r].pc = "upstream"]
                  /\ UNCHANGED <<stats, last>>
             ELSE /\ Finish(r, StatusBadGateway, "circuit breaker open", TRUE,
                            NoOutcome)
                  /\ UNCHANGED backends
    /\ UNCHANGED <<current, monitor, checker, down, attempts>>

\* the rest of proxyRequest, with outcome o: unless the proxied request
\* cannot be built, the upstream call is made and what it returns is recorded
\* on the breaker and the passive monitor; the response is relayed or 502 is
\* sent; the deferred DecrementConnections runs
Upstream(r, o) ==
    /\ req[r].pc = "upstream"
    /\ LET a == req[r].backend
           called == ~BuildFailed(o)
           failed == UpstreamFailed(o)
           pm == PassiveRecordFailure(monitor, backends, a)
       IN /\ a \in down => o.kind = "error"
          /\ pool' = IF ~called THEN pool
                     ELSE [pool EXCEPT !.breakers[a] =
                             IF failed THEN RecordFailure(@, now)
                             ELSE RecordSuccess(@)]
          /\ monitor' = IF ~called THEN monitor
                        ELSE IF failed THEN pm.m
                        ELSE PassiveRecordSuccess(monitor, a)
          /\ backends' = Release(IF called /\ failed THEN pm.backends
                                 ELSE backends, a, ~called \/ failed)
          /\ attempts' = IF a \in down THEN [attempts EXCEPT ![a] = @ + 1]
                         ELSE attempts
          /\ IF ~called
             THEN Finish(r, StatusBadGateway, "failed to create proxy request",
                         TRUE, o)
             ELSE IF failed
             THEN Finish(r, StatusBadGateway, "failed to proxy request", TRUE, o)
             ELSE Finish(r, o.status, "relayed", FALSE, o)
    /\ UNCHANGED <<current, checker, down>>

\* a probe of the active checker ends
Probe(i, ok) ==
    /\ checker.on
    /\ checker.c.failureCounts[i] < MaxCount
    /\ checker.c.successCounts[i] < MaxCount
    /\ LET res == IF ok THEN CheckerRecordSuccess(checker.c, backends, i)
                  ELSE CheckerRecordFailure(checker.c, backends, i)
       IN /\ checker' = [checker EXCEPT !.c = res.c]
          /\ backends' = res.backends
    /\ UNCHANGED <<current, pool, stats, req, last, monitor, down, attempts>>

\* a backend goes down for good
GoDown(i) ==
    /\ i \notin down
    /\ down' = down \cup {i}
    /\ UNCHANGED <<backends, current, pool, stats, req, last, monitor, checker,
                   attempts>>

\* time passes; only Allow on an Open breaker reads the clock
SysTick ==
    /\ now < StartTime + MaxTicks
    /\ \E a \in DOMAIN pool.breakers : pool.breakers[a].state = StateOpen
    /\ now' = now + 1

\* ========================================================= specifications
BalInit(bs, p) ==
    /\ backends = bs
    /\ policy = p
    /\ current = 0
    /\ log = <<>>
    /\ fresh = TRUE

MonInit(m) ==
    /\ monitor = m
    /\ pmLast = [op |-> "New", address |-> 0, before |-> 0,
                 wasHealthy |-> TRUE, marked |-> FALSE]
    /\ pmRun = [a \in 1..NumBackends |-> 0]

PoolInit ==
    /\ poolIds = [a \in 1..NumBackends |-> NoBreaker]
    /\ caller = [c \in 1..NumCallers |-> IdleCaller]
    /\ made = [a \in 1..NumBackends |-> {}]
    /\ got = [a \in 1..NumBackends |-> {}]
    /\ gets = 0

\* NewServer: the balancer over the configured backends, the breaker pool,
\* the passive monitor, the handler, and the checker when it is enabled
CheckerOff == [on |-> FALSE, healthyThreshold |-> 1]

CheckerOn(healthyThreshold) ==
    [on |-> TRUE, healthyThreshold |-> healthyThreshold]

RRInit ==
    /\ nx = [g \in 1..NumCallers |-> IdleNext]
    /\ handed = <<>>

LkInit ==
    /\ mu = 0
    /\ thr = [g \in 1..NumCallers |-> IdleThread]
    /\ committed = breaker
    /\ openRet = -1

ChkInit ==
    /\ run = NewRun
    /\ chkLast = NoProbe
    /\ chkDone = [a \in 1..NumReported |-> 0]

NoMark == [inNext |-> 0, waiting |-> 0, sent |-> 0]

\* to is the configured circuit_breaker.timeout
SysInit(ft, st, to, chk) ==
    /\ config = [timeout |-> to]
    /\ cancels = [a \in 1..NumReported |-> 0]
    /\ late = [a \in 1..NumReported |-> NoMark]
    /\ rotation = [served |-> 0, nilAt |-> -1]
    /\ pool = NewBreakerPool(ft, st, Seconds(to))
    /\ stats = [TotalRequests |-> 0, ActiveRequests |-> 0, FailedRequests |-> 0]
    /\ req = [r \in 1..NumRequests |-> IdleRequest]
    /\ last = NoLast
    /\ checker = [on |-> chk.on,
                  c |-> NewChecker(monitor.unhealthyThreshold,
                                   chk.healthyThreshold)]
    /\ down = {}
    /\ attempts = [a \in 1..NumReported |-> 0]

BrkInit(b) ==
    /\ breaker = b
    /\ now = StartTime
    /\ brkOp = "NewBreaker"
    /\ brkRet = "void"
    /\ brkPre = [b |-> b, now |-> StartTime]
    /\ failRun = 0
    /\ succRun = 0
    /\ openedAt = ZeroTime
    /\ twin = b
    /\ twinOn = FALSE
    /\ twinRet = "void"
    /\ resetFrom = -1

\* NewRoundRobin / NewLeastConnections take the backends as the caller built
\* them: the health flags and connection counts may already have been set.
BackendStates ==
    [1..NumBackends -> [Address : 1..NumBackends, Weight : {1},
                        Healthy : BOOLEAN, Connections : 0..MaxConns]]

InitBal ==
    /\ \E bs \in BackendStates, p \in {"round-robin", "least-connections"} :
          /\ \A i \in 1..NumBackends : bs[i].Address = i
          /\ BalInit(bs, p)
    /\ BrkInit(NewBreaker(1, 1, 0))
    /\ MonInit(NewPassiveMonitor(1))
    /\ PoolInit
    /\ SysInit(1, 1, 0, CheckerOff)
    /\ ChkInit
    /\ LkInit
    /\ RRInit

NextBal ==
    \/ DoNext /\ UNCHANGED <<brkVars, monVars, plVars, sysVars, chkVars, lkVars, rrVars, cfgVars, hisVars>>
    \/ DoSetHealthy /\ UNCHANGED <<brkVars, monVars, plVars, sysVars, chkVars, lkVars, rrVars, cfgVars, hisVars>>
    \/ DoMarkHealthy /\ UNCHANGED <<brkVars, monVars, plVars, sysVars, chkVars, lkVars, rrVars, cfgVars, hisVars>>
    \/ DoMarkUnhealthy /\ UNCHANGED <<brkVars, monVars, plVars, sysVars, chkVars, lkVars, rrVars, cfgVars, hisVars>>
    \/ DoIncrementConnections /\ UNCHANGED <<brkVars, monVars, plVars, sysVars, chkVars, lkVars, rrVars, cfgVars, hisVars>>
    \/ DoDecrementConnections /\ UNCHANGED <<brkVars, monVars, plVars, sysVars, chkVars, lkVars, rrVars, cfgVars, hisVars>>

SpecBal == InitBal /\ [][NextBal]_vars

InitBrk ==
    /\ \E ft \in 1..MaxThreshold, st \in 1..MaxThreshold, to \in 0..MaxTimeout :
          BrkInit(NewBreaker(ft, st, to))
    /\ BalInit([i \in 1..NumBackends |-> NewBackend(i, 1)], "round-robin")
    /\ MonInit(NewPassiveMonitor(1))
    /\ PoolInit
    /\ SysInit(1, 1, 0, CheckerOff)
    /\ ChkInit
    /\ LkInit
    /\ RRInit

NextBrk ==
    \/ DoAllow /\ UNCHANGED <<balVars, monVars, plVars, sysVars, chkVars, lkVars, rrVars, cfgVars, hisVars>>
    \/ DoRecordSuccess /\ UNCHANGED <<balVars, monVars, plVars, sysVars, chkVars, lkVars, rrVars, cfgVars, hisVars>>
    \/ DoRecordFailure /\ UNCHANGED <<balVars, monVars, plVars, sysVars, chkVars, lkVars, rrVars, cfgVars, hisVars>>
    \/ DoState /\ UNCHANGED <<balVars, monVars, plVars, sysVars, chkVars, lkVars, rrVars, cfgVars, hisVars>>
    \/ DoReset /\ UNCHANGED <<balVars, monVars, plVars, sysVars, chkVars, lkVars, rrVars, cfgVars, hisVars>>
    \/ Tick /\ UNCHANGED <<balVars, monVars, plVars, sysVars, chkVars, lkVars, rrVars, cfgVars, hisVars>>

SpecBrk == InitBrk /\ [][NextBrk]_vars

\* the balancer over backends as any configuration names them: Validate
\* wants an address for each backend and does not compare the addresses, so
\* two backends can have the same one; backends are marked by address and
\* requests are dispatched to B1 and leave it
InitMark ==
    /\ \E addr \in [1..NumBackends -> 1..NumBackends] :
          BalInit([i \in 1..NumBackends |-> NewBackend(addr[i], i)],
                  "round-robin")
    /\ BrkInit(NewBreaker(1, 1, 0))
    /\ MonInit(NewPassiveMonitor(1))
    /\ PoolInit
    /\ SysInit(1, 1, 0, CheckerOff)
    /\ ChkInit
    /\ LkInit
    /\ RRInit

NextMark ==
    \/ DoMarkHealthy /\ UNCHANGED <<brkVars, monVars, plVars, sysVars, chkVars, lkVars, rrVars, cfgVars, hisVars>>
    \/ DoMarkUnhealthy /\ UNCHANGED <<brkVars, monVars, plVars, sysVars, chkVars, lkVars, rrVars, cfgVars, hisVars>>
    \/ /\ DoIncrementConnections
       /\ backends'[B1] # backends[B1]
       /\ UNCHANGED <<brkVars, monVars, plVars, sysVars, chkVars, lkVars, rrVars, cfgVars, hisVars>>
    \/ /\ DoDecrementConnections
       /\ backends'[B1] # backends[B1]
       /\ UNCHANGED <<brkVars, monVars, plVars, sysVars, chkVars, lkVars, rrVars, cfgVars, hisVars>>

SpecMark == InitMark /\ [][NextMark]_vars

\* concurrent requests to one backend: their goroutines call the methods of
\* its Breaker
lkFrame == <<balVars, brkOp, brkRet, brkPre, failRun, succRun, openedAt, twin,
             twinOn, twinRet, resetFrom, monVars, plVars, sysVars, chkVars,
             rrVars, cfgVars, hisVars>>

NextLock ==
    \/ \E g \in 1..NumCallers, op \in {"Allow", "RecordSuccess", "RecordFailure"} :
          Call(g, op) /\ UNCHANGED lkFrame
    \/ \E g \in 1..NumCallers : Lock(g) /\ UNCHANGED lkFrame
    \/ \E g \in 1..NumCallers : Write(g) /\ UNCHANGED lkFrame
    \/ \E g \in 1..NumCallers : Unlock(g) /\ UNCHANGED lkFrame
    \/ LockTick /\ UNCHANGED lkFrame

InitLock ==
    /\ \E ft \in {1, MaxThreshold}, st \in {1, MaxThreshold},
          to \in {0, MaxTimeout} :
          BrkInit(NewBreaker(ft, st, to))
    /\ BalInit([i \in 1..NumBackends |-> NewBackend(i, 1)], "round-robin")
    /\ MonInit(NewPassiveMonitor(1))
    /\ PoolInit
    /\ SysInit(1, 1, 0, CheckerOff)
    /\ ChkInit
    /\ LkInit
    /\ RRInit

SpecLock == InitLock /\ [][NextLock]_vars

\* goroutines calling RoundRobin.Next concurrently, over backends with any
\* health flags, while the health flag of B1 is set and cleared
InitRR ==
    /\ \E bs \in BackendStates :
          /\ \A i \in 1..NumBackends :
                bs[i].Address = i /\ bs[i].Connections = 0
          /\ BalInit(bs, "round-robin")
    /\ BrkInit(NewBreaker(1, 1, 0))
    /\ MonInit(NewPassiveMonitor(1))
    /\ PoolInit
    /\ SysInit(1, 1, 0, CheckerOff)
    /\ ChkInit
    /\ LkInit
    /\ RRInit

rrFrame == <<brkVars, monVars, plVars, sysVars, chkVars, lkVars, cfgVars, hisVars>>

NextRR ==
    \/ \E g \in 1..NumCallers : NextCollect(g) /\ UNCHANGED rrFrame
    \/ \E g \in 1..NumCallers : NextAdd(g) /\ UNCHANGED rrFrame
    \/ \E g \in 1..NumCallers : NextIndex(g) /\ UNCHANGED rrFrame
    \/ /\ DoSetHealthy
       /\ backends'[B1] # backends[B1]
       /\ UNCHANGED <<rrFrame, rrVars>>

SpecRR == InitRR /\ [][NextRR]_vars

\* a RoundRobin whose backends go unhealthy and recover while Next() is
\* called, with the count of the calls that returned a backend
RotationStep ==
    rotation' = IF log'[Len(log')] # None
                THEN [rotation EXCEPT !.served = @ + 1]
                ELSE [rotation EXCEPT !.nilAt = rotation.served]

rotFrame == <<brkVars, monVars, plVars, sysVars, chkVars, lkVars, rrVars,
              cfgVars, cancels, late>>

NextRot ==
    \/ DoNext /\ RotationStep /\ UNCHANGED rotFrame
    \/ DoMarkHealthy /\ UNCHANGED <<rotFrame, rotation>>
    \/ DoMarkUnhealthy /\ UNCHANGED <<rotFrame, rotation>>

SpecRot == InitRR /\ [][NextRot]_vars

\* the passive monitor over the balancer, as the server wires them
InitMon ==
    /\ \E ut \in 1..MaxThreshold : MonInit(NewPassiveMonitor(ut))
    /\ BalInit([i \in 1..NumBackends |-> NewBackend(i, 1)], "round-robin")
    /\ BrkInit(NewBreaker(1, 1, 0))
    /\ PoolInit
    /\ SysInit(1, 1, 0, CheckerOff)
    /\ ChkInit
    /\ LkInit
    /\ RRInit

NextMon ==
    \/ PMRecordSuccess /\ UNCHANGED <<brkVars, plVars, sysVars, chkVars, lkVars, rrVars, cfgVars, hisVars>>
    \/ PMRecordFailure /\ UNCHANGED <<brkVars, plVars, sysVars, chkVars, lkVars, rrVars, cfgVars, hisVars>>
    \/ PMReset /\ UNCHANGED <<brkVars, plVars, sysVars, chkVars, lkVars, rrVars, cfgVars, hisVars>>
    \/ PMSetHealthy /\ UNCHANGED <<brkVars, plVars, sysVars, chkVars, lkVars, rrVars, cfgVars, hisVars>>

SpecMon == InitMon /\ [][NextMon]_vars

\* goroutines calling BreakerPool.Get
InitPool ==
    /\ PoolInit
    /\ BalInit([i \in 1..NumBackends |-> NewBackend(i, 1)], "round-robin")
    /\ BrkInit(NewBreaker(1, 1, 0))
    /\ MonInit(NewPassiveMonitor(1))
    /\ SysInit(1, 1, 0, CheckerOff)
    /\ ChkInit
    /\ LkInit
    /\ RRInit

NextPool ==
    \/ GetStart /\ UNCHANGED <<balVars, brkVars, monVars, sysVars, chkVars, lkVars, rrVars, cfgVars, hisVars>>
    \/ GetCreate /\ UNCHANGED <<balVars, brkVars, monVars, sysVars, chkVars, lkVars, rrVars, cfgVars, hisVars>>

SpecPool == InitPool /\ [][NextPool]_vars

\* what the handler specifications leave alone
obsFrame == <<policy, log, fresh, breaker, brkOp, brkRet, brkPre, failRun,
              succRun, openedAt, twin, twinOn, twinRet, resetFrom,
              pmLast, pmRun, plVars, chkVars, lkVars, rrVars, cfgVars>>

sysFrame == <<obsFrame, hisVars>>

HandlerInit(policies, uts, fts, sts, tos, chks) ==
    /\ \E p \in policies :
          BalInit([i \in 1..NumReported |-> NewBackend(i, 1)], p)
    /\ \E ut \in uts : MonInit(NewPassiveMonitor(ut))
    /\ \E ft \in fts, st \in sts, to \in tos, chk \in chks :
          SysInit(ft, st, to, chk)
    /\ BrkInit(NewBreaker(1, 1, 0))
    /\ PoolInit
    /\ ChkInit
    /\ LkInit
    /\ RRInit

\* the proxy under concurrent requests, as NewServer wires it without the
\* active checker; a breaker that opens either readmits at once (timeout 0)
\* or stays open (the clock does not advance)
SysBodies == {Body(0, NoFail), Body(MaxRequestBody + 1, NoFail)}

SysOutcomes ==
    {Outcome("build", 0, FALSE), Outcome("error", 0, FALSE),
     Outcome("cancel", 0, FALSE), Outcome("response", StatusOK, FALSE)}

InitSys ==
    HandlerInit({"round-robin", "least-connections"}, {1, MaxThreshold},
                {1, MaxThreshold}, {1}, {0, MaxTimeout}, {CheckerOff})

NextSys ==
    \/ \E r \in 1..NumRequests, body \in SysBodies :
          /\ stats.TotalRequests < MaxRequests
          /\ Enter(r, body) /\ UNCHANGED <<now, sysFrame>>
    \/ \E r \in 1..NumRequests : ReadBody(r) /\ UNCHANGED <<now, sysFrame>>
    \/ \E r \in 1..NumRequests : TakeSnapshot(r) /\ UNCHANGED <<now, sysFrame>>
    \/ \E r \in 1..NumRequests : Pick(r) /\ UNCHANGED <<now, sysFrame>>
    \/ \E r \in 1..NumRequests : Admit(r) /\ UNCHANGED <<now, sysFrame>>
    \/ \E r \in 1..NumRequests, o \in SysOutcomes :
          Upstream(r, o) /\ UNCHANGED <<now, sysFrame>>

SpecSys == InitSys /\ [][NextSys]_vars

\* the proxy serving one request at a time, with every kind of body and of
\* upstream outcome; as in SpecSys a breaker that opens readmits at once or
\* stays open
InitSeq ==
    HandlerInit({"round-robin", "least-connections"}, {1, MaxThreshold},
                {1, MaxThreshold}, {1}, {0, MaxTimeout}, {CheckerOff})

NextSeq ==
    \/ \E body \in Bodies :
          /\ stats.TotalRequests < MaxRequests
          /\ Enter(1, body) /\ UNCHANGED <<now, sysFrame>>
    \/ ReadBody(1) /\ UNCHANGED <<now, sysFrame>>
    \/ TakeSnapshot(1) /\ UNCHANGED <<now, sysFrame>>
    \/ Pick(1) /\ UNCHANGED <<now, sysFrame>>
    \/ Admit(1) /\ UNCHANGED <<now, sysFrame>>
    \/ \E o \in Outcomes : Upstream(1, o) /\ UNCHANGED <<now, sysFrame>>

SpecSeq == InitSeq /\ [][NextSeq]_vars

\* failover: requests are served one at a time, without the active checker;
\* backend B1 goes down at some point and from then on fails every upstream
\* call, every other backend always answers; the clock advances
FailOutcomes == {Outcome("error", 0, FALSE), Outcome("response", StatusOK, FALSE)}

InitFail ==
    HandlerInit({"round-robin", "least-connections"}, 1..MaxThreshold,
                1..MaxThreshold, {1}, 0..MaxTimeout, {CheckerOff})

NextFail ==
    \/ /\ stats.TotalRequests < MaxSeqRequests
       /\ Enter(1, Body(0, NoFail)) /\ UNCHANGED <<now, sysFrame>>
    \/ ReadBody(1) /\ UNCHANGED <<now, sysFrame>>
    \/ TakeSnapshot(1) /\ UNCHANGED <<now, sysFrame>>
    \/ Pick(1) /\ UNCHANGED <<now, sysFrame>>
    \/ Admit(1) /\ UNCHANGED <<now, sysFrame>>
    \/ \E o \in FailOutcomes :
          /\ req[1].backend # B1 => o.kind = "response"
          /\ Upstream(1, o) /\ UNCHANGED <<now, sysFrame>>
    \/ GoDown(B1) /\ UNCHANGED <<now, sysFrame>>
    \/ SysTick /\ UNCHANGED <<backends, current, monitor, sysVars, sysFrame>>

SpecFail == InitFail /\ [][NextFail]_vars

\* the proxy serving one request at a time to clients that may go away while
\* the upstream call is in flight; the history counts, per backend, the
\* calls in a row that ended that way
CancelOutcomes ==
    {Outcome("cancel", 0, FALSE), Outcome("error", 0, FALSE),
     Outcome("response", StatusOK, FALSE)}

CancelRun(a, o) ==
    IF o.kind = "cancel" THEN [cancels EXCEPT ![a] = @ + 1]
    ELSE IF BuildFailed(o) THEN cancels
    ELSE [cancels EXCEPT ![a] = 0]

InitCancel ==
    HandlerInit({"round-robin", "least-connections"}, {1, MaxThreshold},
                {1, MaxThreshold}, {1}, {0, MaxTimeout}, {CheckerOff})

NextCancel ==
    \/ /\ stats.TotalRequests < MaxSeqRequests
       /\ Enter(1, Body(0, NoFail)) /\ UNCHANGED <<now, sysFrame>>
    \/ ReadBody(1) /\ UNCHANGED <<now, sysFrame>>
    \/ TakeSnapshot(1) /\ UNCHANGED <<now, sysFrame>>
    \/ Pick(1) /\ UNCHANGED <<now, sysFrame>>
    \/ Admit(1) /\ UNCHANGED <<now, sysFrame>>
    \/ \E o \in CancelOutcomes :
          /\ Upstream(1, o)
          /\ cancels' = CancelRun(req[1].backend, o)
          /\ UNCHANGED <<now, obsFrame, late, rotation>>

SpecCancel == InitCancel /\ [][NextCancel]_vars

\* the proxy serving one request at a time with the active checker running:
\* upstream calls fail or are answered, the probes of B1 succeed or fail, and
\* one successful probe is enough for the checker to set a backend healthy
RecoverOutcomes ==
    {Outcome("error", 0, FALSE), Outcome("response", StatusOK, FALSE)}

InitRecover ==
    HandlerInit({"round-robin", "least-connections"}, 1..MaxThreshold,
                {1, MaxThreshold}, {1}, {0}, {CheckerOn(1)})

NextRecover ==
    \/ /\ stats.TotalRequests < MaxSeqRequests
       /\ Enter(1, Body(0, NoFail)) /\ UNCHANGED <<now, sysFrame>>
    \/ ReadBody(1) /\ UNCHANGED <<now, sysFrame>>
    \/ TakeSnapshot(1) /\ UNCHANGED <<now, sysFrame>>
    \/ Pick(1) /\ UNCHANGED <<now, sysFrame>>
    \/ Admit(1) /\ UNCHANGED <<now, sysFrame>>
    \/ \E o \in RecoverOutcomes : Upstream(1, o) /\ UNCHANGED <<now, sysFrame>>
    \/ \E ok \in BOOLEAN : Probe(B1, ok) /\ UNCHANGED <<now, sysFrame>>

SpecRecover == InitRecover /\ [][NextRecover]_vars

\* the proxy under concurrent requests with the active checker running or
\* not; the first upstream failure of a backend gets it marked unhealthy; the
\* probes of B1 end in success or failure at any time
HealthOutcomes ==
    {Outcome("error", 0, FALSE), Outcome("response", StatusOK, FALSE)}

InitHealth ==
    HandlerInit({"round-robin", "least-connections"}, {1}, {MaxThreshold},
                {1}, {0}, {CheckerOff, CheckerOn(MaxThreshold)})

NextHealth ==
    \/ \E r \in 1..NumRequests :
          /\ stats.TotalRequests < MaxRequests
          /\ Enter(r, Body(0, NoFail)) /\ UNCHANGED <<now, sysFrame>>
    \/ \E r \in 1..NumRequests : ReadBody(r) /\ UNCHANGED <<now, sysFrame>>
    \/ \E r \in 1..NumRequests : TakeSnapshot(r) /\ UNCHANGED <<now, sysFrame>>
    \/ \E r \in 1..NumRequests : Pick(r) /\ UNCHANGED <<now, sysFrame>>
    \/ \E r \in 1..NumRequests : Admit(r) /\ UNCHANGED <<now, sysFrame>>
    \/ \E r \in 1..NumRequests, o \in HealthOutcomes :
          Upstream(r, o) /\ UNCHANGED <<now, sysFrame>>
    \/ \E ok \in BOOLEAN : Probe(B1, ok) /\ UNCHANGED <<now, sysFrame>>

SpecHealth == InitHealth /\ [][NextHealth]_vars

\* the proxy under concurrent requests with the active checker running;
\* every upstream call is answered, the probes of B1 fail at times: the first
\* failed probe gets B1 marked unhealthy and the first successful one
\* restores it; as many requests enter as can be inside ServeHTTP at once.
\* The history keeps what was in flight when
\* B1 went unhealthy: the Next() calls between their collection of the
\* healthy subset and their return, the requests that Next() had given B1
\* and that were not dispatched yet, and the dispatches to B1 since
InitLate ==
    HandlerInit({"round-robin", "least-connections"}, {1}, {MaxThreshold},
                {1}, {0}, {CheckerOn(1)})

Dispatches(r, a) ==
    req[r].pc = "admit" /\ req'[r].pc = "upstream" /\ req[r].backend = a

LateStep ==
    late' = [a \in 1..NumReported |->
               IF backends[a].Healthy /\ ~backends'[a].Healthy
               THEN [inNext |-> Cardinality({r \in 1..NumRequests :
                                               req[r].pc = "pick"}),
                     waiting |-> Cardinality({r \in 1..NumRequests :
                                     req[r].pc = "admit" /\ req[r].backend = a}),
                     sent |-> 0]
               ELSE IF /\ ~backends[a].Healthy
                       /\ \E r \in 1..NumRequests : Dispatches(r, a)
               THEN [late[a] EXCEPT !.sent = @ + 1]
               ELSE late[a]]

lateFrame == <<now, obsFrame, cancels, rotation>>

NextLate ==
    \/ \E r \in 1..NumRequests :
          /\ stats.TotalRequests < NumRequests
          /\ Enter(r, Body(0, NoFail)) /\ LateStep /\ UNCHANGED lateFrame
    \/ \E r \in 1..NumRequests : ReadBody(r) /\ LateStep /\ UNCHANGED lateFrame
    \/ \E r \in 1..NumRequests :
          TakeSnapshot(r) /\ LateStep /\ UNCHANGED lateFrame
    \/ \E r \in 1..NumRequests : Pick(r) /\ LateStep /\ UNCHANGED lateFrame
    \/ \E r \in 1..NumRequests : Admit(r) /\ LateStep /\ UNCHANGED lateFrame
    \/ \E r \in 1..NumRequests :
          /\ Upstream(r, Outcome("response", StatusOK, FALSE))
          /\ LateStep /\ UNCHANGED lateFrame
    \/ \E ok \in BOOLEAN : Probe(B1, ok) /\ LateStep /\ UNCHANGED lateFrame

SpecLate == InitLate /\ [][NextLate]_vars

\* the active checker, started by Server.Run and cancelled at shutdown, over
\* the balancer's backends; the probes of B1 succeed or fail and the passive
\* monitor may mark B1 unhealthy at any time, the other backends always
\* answer their probes
InitChk ==
    HandlerInit({"round-robin"}, 1..MaxThreshold, {1}, {1}, {0},
                {CheckerOn(ht) : ht \in 1..MaxThreshold})

chkFrame == <<policy, current, log, fresh, brkVars, monVars, plVars,
              pool, stats, req, last, down, attempts, lkVars, rrVars, cfgVars, hisVars>>

NextChk ==
    \/ ChkStart /\ UNCHANGED chkFrame
    \/ \E i \in 1..NumReported, ok \in BOOLEAN :
          /\ i # B1 => ok
          /\ CheckBackend(i, ok) /\ UNCHANGED chkFrame
    \/ Join /\ UNCHANGED chkFrame
    \/ TickFire /\ UNCHANGED chkFrame
    \/ SelectTick /\ UNCHANGED chkFrame
    \/ SelectDone /\ UNCHANGED chkFrame
    \/ Cancel /\ UNCHANGED chkFrame
    \/ PassiveMark(B1) /\ UNCHANGED chkFrame

SpecChk == InitChk /\ [][NextChk]_vars

\* the same with the scheduling the runtime gives: Start is followed by the
\* goroutine running, every probe ends (the client's Timeout bounds it),
\* wg.Wait() returns once the probes are done, and a select whose ctx.Done()
\* case is ready again and again picks it in the end (the choice among ready
\* cases is random)
SpecChkFair ==
    /\ SpecChk
    /\ WF_vars(ChkStart /\ UNCHANGED chkFrame)
    /\ WF_vars(\E i \in 1..NumReported, ok \in BOOLEAN :
                  /\ i # B1 => ok
                  /\ CheckBackend(i, ok) /\ UNCHANGED chkFrame)
    /\ WF_vars(Join /\ UNCHANGED chkFrame)
    /\ SF_vars(SelectDone /\ UNCHANGED chkFrame)

TypeOK ==
    /\ current \in 0..MaxCalls
    /\ Len(log) <= MaxCalls
    /\ \A i \in 1..NumBackends : backends[i].Connections \in 0..MaxConns
    /\ breaker.state \in {StateClosed, StateOpen, StateHalfOpen}
    /\ now \in StartTime..(StartTime + MaxTicks)

\* ================================================================= claims
\* how often backend a was returned by the calls log[i..j]
CountIn(i, j, a) == Cardinality({k \in i..j : log[k] = a})

LastRet == log[Len(log)]

\* C1: round-robin equidistribution. Over any run of consecutive Next() calls
\* made while the healthy subset stays the same (and is non-empty), the numbers
\* of times any two healthy backends were returned differ by at most 1.
C1_Equidistribution ==
    policy = "round-robin" =>
        \A i \in 1..Len(log) : \A j \in i..Len(log) :
            \A a \in HealthySet(backends) : \A b \in HealthySet(backends) :
                CountIn(i, j, a) - CountIn(i, j, b) <= 1

\* a window of at least four calls over two or more healthy backends, started
\* after a health change with the counter already advanced
C1_Witness ==
    /\ policy = "round-robin"
    /\ ~fresh
    /\ Cardinality(HealthySet(backends)) >= 2
    /\ Len(log) >= 3
    /\ current > Len(log)

\* C2: round-robin order. On a freshly constructed RoundRobin whose healthy
\* subset has not changed, the k-th Next() returns the backend at position
\* (k-1) mod H of the healthy subset in configured order.
C2_Order ==
    (policy = "round-robin" /\ fresh /\ HealthySet(backends) # {}) =>
        LET healthy == SelectSeq([i \in 1..NumBackends |-> i],
                                 LAMBDA i : backends[i].Healthy)
        IN \A k \in 1..Len(log) :
               log[k] = healthy[((k - 1) % Len(healthy)) + 1]

\* four calls on a fresh balancer with one backend unhealthy and at least two
\* healthy: the sequence has wrapped around
C2_Witness ==
    /\ policy = "round-robin"
    /\ fresh
    /\ Len(log) >= 4
    /\ Cardinality(HealthySet(backends)) >= 2
    /\ Cardinality(HealthySet(backends)) < NumBackends

\* C3: under both policies Next() returns a backend whose healthy flag is true
\* whenever some backend is healthy, and None exactly when none is; a backend
\* that has been marked unhealthy is returned by no later Next() until it is
\* healthy again.
C3_OnlyHealthy ==
    \A k \in 1..Len(log) :
        /\ (log[k] = None) <=> (HealthySet(backends) = {})
        /\ log[k] # None => backends[log[k]].Healthy

\* after a health change left some backend unhealthy, two Next() calls returned
\* backends
C3_Witness ==
    /\ ~fresh
    /\ Len(log) >= 2
    /\ log[1] # None
    /\ \E a \in 1..NumBackends : ~backends[a].Healthy

\* C4: LeastConnections.Next() returns a healthy backend with the minimal
\* connections value among the healthy ones, the first such in configured
\* order; unhealthy backends are ignored even with fewer connections.
C4_LeastConnections ==
    (policy = "least-connections" /\ HealthySet(backends) # {}) =>
        \A k \in 1..Len(log) :
            /\ log[k] \in HealthySet(backends)
            /\ \A j \in HealthySet(backends) :
                  /\ backends[log[k]].Connections <= backends[j].Connections
                  /\ backends[j].Connections = backends[log[k]].Connections
                        => log[k] <= j

\* the returned backend ties with a later healthy one, and an unhealthy
\* backend has fewer connections than both
C4_Witness ==
    /\ policy = "least-connections"
    /\ Len(log) >= 1
    /\ LastRet # None
    /\ \E j \in HealthySet(backends) :
          j > LastRet /\ backends[j].Connections = backends[LastRet].Connections
    /\ \E u \in 1..NumBackends :
          ~backends[u].Healthy
          /\ backends[u].Connections < backends[LastRet].Connections

\* C5: consecutive-failure opening. A RecordFailure() in Closed opens the
\* breaker exactly when it is the failureThreshold-th RecordFailure() with no
\* RecordSuccess() in between; fewer leave it Closed; a RecordSuccess() in
\* Closed zeroes failures.
C5_OpensAtThreshold ==
    /\ (brkOp = "RecordFailure" /\ brkPre.b.state = StateClosed) =>
          /\ breaker.state \in {StateClosed, StateOpen}
          /\ (breaker.state = StateOpen) <=> (failRun = breaker.failureThreshold)
    /\ breaker.state = StateClosed => failRun < breaker.failureThreshold
    /\ (brkOp = "RecordSuccess" /\ brkPre.b.state = StateClosed) =>
          breaker.state = StateClosed /\ breaker.failures = 0

\* the breaker has just opened on a threshold of two or more
C5_Witness ==
    /\ brkOp = "RecordFailure"
    /\ brkPre.b.state = StateClosed
    /\ breaker.state = StateOpen
    /\ breaker.failureThreshold >= 2

\* C6: breaker admission. Allow() returns true in Closed and in HalfOpen; in
\* Open it returns false while now - lastFailure < timeout, and at
\* now - lastFailure >= timeout it returns true, moves to HalfOpen and zeroes
\* successes.
C6_Admission ==
    brkOp = "Allow" =>
        /\ brkPre.b.state \in {StateClosed, StateHalfOpen} =>
              brkRet = TRUE /\ breaker = brkPre.b
        /\ (brkPre.b.state = StateOpen
              /\ brkPre.now - brkPre.b.lastFailure < brkPre.b.timeout) =>
              brkRet = FALSE /\ breaker = brkPre.b
        /\ (brkPre.b.state = StateOpen
              /\ brkPre.now - brkPre.b.lastFailure >= brkPre.b.timeout) =>
              /\ brkRet = TRUE
              /\ breaker.state = StateHalfOpen
              /\ breaker.successes = 0

\* an Open breaker with a positive timeout and a non-zero successes count was
\* admitted into HalfOpen
C6_Witness ==
    /\ brkOp = "Allow"
    /\ brkRet = TRUE
    /\ brkPre.b.state = StateOpen
    /\ brkPre.b.timeout >= 1
    /\ brkPre.b.successes > 0
    /\ breaker.state = StateHalfOpen

\* C7: HalfOpen recovery. Each RecordSuccess() in HalfOpen increments
\* successes; the call that brings it to successThreshold closes the breaker
\* with failures zero; fewer leave it HalfOpen.
C7_HalfOpenRecovery ==
    /\ (brkOp = "RecordSuccess" /\ brkPre.b.state = StateHalfOpen) =>
          /\ breaker.successes = brkPre.b.successes + 1
          /\ breaker.successes = succRun
          /\ \/ /\ succRun = breaker.successThreshold
                /\ breaker.state = StateClosed
                /\ breaker.failures = 0
             \/ /\ succRun < breaker.successThreshold
                /\ breaker.state = StateHalfOpen
    /\ breaker.state = StateHalfOpen => succRun < breaker.successThreshold

\* the breaker has just closed on a success threshold of two or more
C7_Witness ==
    /\ brkOp = "RecordSuccess"
    /\ brkPre.b.state = StateHalfOpen
    /\ brkPre.b.failures > 0
    /\ breaker.state = StateClosed
    /\ breaker.successThreshold >= 2

\* C8: HalfOpen regression. One RecordFailure() in HalfOpen, whatever the
\* successes count, moves to Open, sets lastFailure to the current time and
\* zeroes successes; no Allow() admits again before a full timeout has passed
\* since the breaker opened.
C8_HalfOpenRegression ==
    /\ (brkOp = "RecordFailure" /\ brkPre.b.state = StateHalfOpen) =>
          /\ breaker.state = StateOpen
          /\ breaker.lastFailure = brkPre.now
          /\ breaker.successes = 0
    /\ (brkOp = "Allow" /\ brkPre.b.state = StateOpen /\ brkRet = TRUE) =>
          brkPre.now - openedAt >= breaker.timeout

\* a HalfOpen breaker with a success already counted failed, later than the
\* failure that opened it the time before
C8_Witness ==
    /\ brkOp = "RecordFailure"
    /\ brkPre.b.state = StateHalfOpen
    /\ brkPre.b.successes > 0
    /\ brkPre.now > brkPre.b.lastFailure
    /\ breaker.state = StateOpen

\* C9: breaker state invariants (thresholds >= 1). Closed implies
\* failures < failureThreshold, HalfOpen implies successes < successThreshold,
\* and neither counter is negative.
C9_StateInvariants ==
    /\ breaker.state = StateClosed => breaker.failures < breaker.failureThreshold
    /\ breaker.state = StateHalfOpen =>
          breaker.successes < breaker.successThreshold
    /\ breaker.failures >= 0
    /\ breaker.successes >= 0

\* after a Reset, the breaker is Closed one failure short of opening
C9_Witness ==
    /\ twinOn
    /\ breaker.state = StateClosed
    /\ breaker.failureThreshold >= 2
    /\ breaker.failures = breaker.failureThreshold - 1

\* C10: reset equivalence. After Reset(), every sequence of Allow /
\* RecordSuccess / RecordFailure / State calls returns the same values and
\* shows the same states as on a breaker freshly built by NewBreaker with the
\* same configuration.
C10_ResetEquivalence ==
    twinOn =>
        /\ State(breaker) = State(twin)
        /\ brkRet = twinRet

\* Reset was called on an Open breaker, and a later Allow() was refused
C10_Witness ==
    /\ twinOn
    /\ resetFrom = StateOpen
    /\ brkOp = "Allow"
    /\ brkRet = FALSE

\* C11: passive threshold. RecordSuccess(a) zeroes the count of a and
\* RecordFailure(a) increments it; MarkUnhealthy(a) is called on exactly the
\* RecordFailure(a) calls whose new count is >= unhealthyThreshold, so the
\* monitor turns a healthy backend unhealthy only after unhealthyThreshold
\* failures with no success between them; no count is negative.
C11_PassiveThreshold ==
    /\ \A a \in 1..NumBackends : monitor.failureCounts[a] >= 0
    /\ pmLast.op = "RecordSuccess" => monitor.failureCounts[pmLast.address] = 0
    /\ pmLast.op = "RecordFailure" =>
          /\ monitor.failureCounts[pmLast.address] = pmLast.before + 1
          /\ pmLast.marked <=>
                monitor.failureCounts[pmLast.address] >= monitor.unhealthyThreshold
          /\ pmLast.marked => ~backends[pmLast.address].Healthy
          /\ pmLast.marked => pmRun[pmLast.address] >= monitor.unhealthyThreshold
          /\ ~pmLast.marked =>
                backends[pmLast.address].Healthy = pmLast.wasHealthy

\* a healthy backend was marked unhealthy on a threshold of two or more
C11_Witness ==
    /\ pmLast.op = "RecordFailure"
    /\ pmLast.marked
    /\ pmLast.wasHealthy
    /\ monitor.unhealthyThreshold >= 2
    /\ ~backends[pmLast.address].Healthy

\* the elements of a sequence
Range(q) == {q[k] : k \in 1..Len(q)}

\* request r gets its backend from Next() in this step
NextReturns(r) == req[r].pc = "pick" /\ req'[r].pc = "admit"

\* every false-to-true change of a healthy flag is made by the active
\* checker's success path; without the checker an unhealthy backend stays
\* unhealthy
OnlyCheckerRecovers ==
    \A i \in 1..Len(backends) :
        /\ (~backends[i].Healthy /\ backends'[i].Healthy) =>
              /\ checker.on
              /\ checker'.c.successCounts[i] = checker.c.successCounts[i] + 1
              /\ checker'.c.successCounts[i] >= checker.c.healthyThreshold
              /\ UNCHANGED <<monitor, pool, req, stats>>
        /\ (~checker.on /\ ~backends[i].Healthy) => ~backends'[i].Healthy

\* C12 as stated: no passive recovery, and when the active checker is not
\* running a backend that has become unhealthy is never again returned by
\* Next().
C12_NoPassiveRecovery_AsStated ==
    [][/\ OnlyCheckerRecovers
       /\ \A r \in 1..NumRequests :
             (~checker.on /\ NextReturns(r)) =>
                ~(\E i \in 1..Len(backends) :
                     ~backends[i].Healthy /\ req'[r].backend = i)]_vars

\* C12, amended: no operation of the passive monitor or of the handler changes
\* a healthy flag from false to true; every such change is made by the active
\* checker's success path, so without the checker an unhealthy backend stays
\* unhealthy in every later state and is never returned by a Next() call that
\* collects its healthy subset after the backend became unhealthy: Next()
\* returns a member of the subset it collected, and that subset holds exactly
\* the backends healthy when it was collected.
C12_NoPassiveRecovery ==
    [][/\ OnlyCheckerRecovers
       /\ \A r \in 1..NumRequests :
             /\ (req[r].pc = "next" /\ req'[r].pc = "pick") =>
                   Range(req'[r].snap) = HealthySet(backends)
             /\ NextReturns(r) => req'[r].backend \in Range(req[r].snap)]_vars

\* the passive monitor marked B1 unhealthy (its count is still at the
\* threshold) and the checker's probes have set it healthy again
C12_Witness ==
    /\ checker.on
    /\ backends[B1].Healthy
    /\ monitor.failureCounts[B1] >= monitor.unhealthyThreshold
    /\ checker.c.successCounts[B1] >= checker.c.healthyThreshold
    /\ checker.c.healthyThreshold >= 2

\* request r leaves ServeHTTP in this step
Leaves(r) == req[r].pc # "idle" /\ req'[r].pc = "idle"

\* B1 is down and the balancer holds it unhealthy
Failed(bs, dn) == B1 \in dn /\ ~bs[B1].Healthy

\* C13: failover. With B1 failing every upstream call from some point on, the
\* other backends answering, no active checker and requests served one at a
\* time, for every failureThreshold and unhealthyThreshold: at most
\* unhealthyThreshold upstream calls are made to B1 after it went down, and
\* the unhealthyThreshold-th of them leaves B1 marked unhealthy; from then on
\* Next() never returns B1, no request is dispatched to it, and every request
\* is answered with the response of another backend.
C13_Failover ==
    [][/\ B1 \in down' =>
             /\ attempts'[B1] <= monitor'.unhealthyThreshold
             /\ attempts'[B1] = monitor'.unhealthyThreshold
                   => ~backends'[B1].Healthy
       /\ Failed(backends, down) =>
             /\ Failed(backends', down')
             /\ attempts'[B1] = attempts[B1]
             /\ \A r \in 1..NumRequests :
                   /\ req'[r].backend # B1
                   /\ Leaves(r) =>
                         /\ last'.backend \in (1..Len(backends)) \ {B1}
                         /\ last'.outcome.kind = "response"
                         /\ last'.status = last'.outcome.status]_vars

\* the breaker of B1 opened before the monitor's threshold was reached and had
\* to time out for the call that got B1 marked unhealthy; a later request was
\* served by B2
C13_Witness ==
    /\ Failed(backends, down)
    /\ pool.failureThreshold < monitor.unhealthyThreshold
    /\ pool.timeout >= 1
    /\ attempts[B1] = monitor.unhealthyThreshold
    /\ last.backend = 2
    /\ last.status = StatusOK

\* the requests currently inside ServeHTTP
Inside == {r \in 1..NumRequests : req[r].pc # "idle"}

\* the requests between dispatch to backend i and their exit
InFlight(i) ==
    {r \in 1..NumRequests : req[r].pc = "upstream" /\ req[r].backend = i}

\* C14: activeRequests accounting. Under any interleaving of concurrent
\* requests, ActiveRequests equals the number of requests currently inside
\* ServeHTTP, so every exit path (413, 502, relayed response, client
\* cancellation) has decremented it, and it is zero once all handlers have
\* exited.
C14_ActiveRequests ==
    /\ stats.ActiveRequests = Cardinality(Inside)
    /\ Inside = {} => stats.ActiveRequests = 0

\* two requests are inside the handler after an earlier one left it because
\* its client went away
C14_Witness ==
    /\ Cardinality(Inside) = 2
    /\ stats.ActiveRequests = 2
    /\ stats.TotalRequests = 3
    /\ last.outcome.kind = "cancel"

\* C15: connection accounting. Under any interleaving, a backend's Connections
\* equals the number of requests between dispatch to it and their exit: each
\* admitted request incremented it once and decrements it once on exit,
\* whether the upstream call succeeded or failed; it is never negative and is
\* back at its starting value 0 once no request is in flight.
C15_Connections ==
    \A i \in 1..Len(backends) :
        /\ backends[i].Connections = Cardinality(InFlight(i))
        /\ backends[i].Connections >= 0
        /\ Inside = {} => backends[i].Connections = NewBackend(i, 1).Connections

\* two requests are in flight to one backend after an upstream call to that
\* backend failed
C15_Witness ==
    \E i \in 1..Len(backends) :
        /\ backends[i].Connections = 2
        /\ last.outcome.kind = "error"
        /\ last.backend = i

\* request r leaves ServeHTTP in this step from position pc
Exits(r, pc) == req[r].pc = pc /\ req'[r].pc = "idle"

\* no breaker is created and no breaker's counters change in this step
BreakerCountersKept ==
    /\ DOMAIN pool'.breakers = DOMAIN pool.breakers
    /\ \A a \in DOMAIN pool.breakers :
          /\ pool'.breakers[a].failures = pool.breakers[a].failures
          /\ pool'.breakers[a].successes = pool.breakers[a].successes

ConnectionsKept ==
    \A i \in 1..Len(backends) :
        backends'[i].Connections = backends[i].Connections

\* C16: pre-dispatch rejection. When Next() returns no backend, or the
\* breaker of the selected backend refuses in Allow(), the handler answers 502
\* having selected at most that one backend and made no upstream call, and the
\* step leaves every backend's Connections, every breaker's failures and
\* successes and every passive-monitor count unchanged.
C16_PreDispatchRejection ==
    [][\A r \in 1..NumRequests :
          Exits(r, "pick") \/ Exits(r, "admit") =>
             /\ last'.status = StatusBadGateway
             /\ last'.calls = 0
             /\ last'.outcome = NoOutcome
             /\ Exits(r, "pick") => last'.picks = 0 /\ last'.backend = None
             /\ Exits(r, "admit") =>
                   last'.picks = 1 /\ last'.backend = req[r].backend
             /\ ConnectionsKept
             /\ BreakerCountersKept
             /\ monitor'.failureCounts = monitor.failureCounts]_vars

\* a request was refused by an open breaker that has counted a failure, while
\* the passive monitor holds a count for that backend
C16_Witness ==
    /\ last.why = "circuit breaker open"
    /\ last.status = StatusBadGateway
    /\ last.backend \in DOMAIN pool.breakers
    /\ pool.breakers[last.backend].state = StateOpen
    /\ pool.breakers[last.backend].failures >= 1
    /\ monitor.failureCounts[last.backend] >= 1

\* the body of request r is read in this step
Reads(r) == req[r].pc = "buffer" /\ req'[r].pc # "buffer"

\* C17: body size limit. A request whose body is exactly MaxRequestBody bytes
\* is accepted and goes on to be proxied with that body; a request whose body
\* is MaxRequestBody + 1 bytes or more is answered 413 with no backend
\* selected, no upstream call made, and no change to any breaker, any
\* passive-monitor count or any backend's Connections.
C17_BodySizeLimit ==
    [][\A r \in 1..NumRequests :
          Reads(r) =>
             /\ (req[r].body.len = MaxRequestBody /\ req[r].body.failAt = NoFail)
                   => /\ req'[r].pc = "next"
                      /\ req'[r].body.len = MaxRequestBody
             /\ req[r].body.len >= MaxRequestBody + 1 =>
                   /\ req'[r].pc = "idle"
                   /\ last'.status = StatusRequestEntityTooLarge
                   /\ last'.picks = 0
                   /\ last'.calls = 0
                   /\ pool' = pool
                   /\ monitor' = monitor
                   /\ backends' = backends]_vars

\* a body of exactly MaxRequestBody bytes has been accepted after an oversized
\* one was answered 413, with a breaker and the monitor holding counts
C17_Witness ==
    /\ last.status = StatusRequestEntityTooLarge
    /\ last.why = "request body too large"
    /\ \E r \in 1..NumRequests :
          req[r].pc = "next" /\ req[r].body.len = MaxRequestBody
    /\ \E a \in DOMAIN pool.breakers : pool.breakers[a].failures >= 1
    /\ \E a \in 1..NumReported : monitor.failureCounts[a] >= 1

\* the reader of the body fails before the size limit is exceeded
ReadFails(body) ==
    /\ body.len # 0
    /\ body.failAt # NoFail
    /\ body.failAt <= MaxRequestBody

\* C18: buffer read error. When reading the request body fails for a reason
\* other than the size limit, the handler answers 502 (not 413), increments
\* FailedRequests by one and exits without selecting a backend.
C18_BufferReadError ==
    [][\A r \in 1..NumRequests :
          Reads(r) /\ ReadFails(req[r].body) =>
             /\ req'[r].pc = "idle"
             /\ last'.status = StatusBadGateway
             /\ stats'.FailedRequests = stats.FailedRequests + 1
             /\ last'.picks = 0]_vars

\* the breaker of backend a after exactly one RecordFailure / RecordSuccess,
\* told from its fields
OneFailureOn(a) ==
    LET b == pool.breakers[a]
        b2 == pool'.breakers[a]
    IN /\ b.state = StateClosed =>
             /\ b2.failures = b.failures + 1
             /\ b2.state = IF b.failures + 1 >= b.failureThreshold
                           THEN StateOpen ELSE StateClosed
       /\ b.state = StateHalfOpen => b2.state = StateOpen /\ b2.successes = 0
       /\ b.state = StateOpen => b2 = b

OneSuccessOn(a) ==
    LET b == pool.breakers[a]
        b2 == pool'.breakers[a]
    IN /\ b.state = StateClosed => b2.state = StateClosed /\ b2.failures = 0
       /\ b.state = StateHalfOpen =>
             IF b.successes + 1 >= b.successThreshold
             THEN b2.state = StateClosed /\ b2.failures = 0
             ELSE b2.state = StateHalfOpen /\ b2.successes = b.successes + 1
       /\ b.state = StateOpen => b2 = b

\* C19: outcome recording. For a dispatched request, a transport error of the
\* upstream call makes one RecordFailure on the backend's breaker and one on
\* the passive monitor and a 502; an upstream response of any status, 4xx and
\* 5xx included, makes one RecordSuccess on both and is relayed with its
\* status: it increments no failure counter, opens no breaker and marks no
\* backend unhealthy, and this is so whether or not streaming the body fails.
C19_OutcomeRecording ==
    [][\A r \in 1..NumRequests :
          Exits(r, "upstream") =>
             LET a == req[r].backend
                 o == last'.outcome
             IN /\ \A c \in DOMAIN pool.breakers \ {a} :
                      pool'.breakers[c] = pool.breakers[c]
                /\ \A c \in (1..NumReported) \ {a} :
                      monitor'.failureCounts[c] = monitor.failureCounts[c]
                /\ o.kind = "error" =>
                      /\ last'.status = StatusBadGateway
                      /\ last'.calls = 1
                      /\ OneFailureOn(a)
                      /\ monitor'.failureCounts[a] = monitor.failureCounts[a] + 1
                /\ o.kind = "response" =>
                      /\ last'.status = o.status
                      /\ last'.calls = 1
                      /\ OneSuccessOn(a)
                      /\ monitor'.failureCounts[a] = 0
                      /\ pool'.breakers[a].failures <= pool.breakers[a].failures
                      /\ pool'.breakers[a].state = StateOpen
                            => pool.breakers[a].state = StateOpen
                      /\ \A i \in 1..Len(backends) :
                            backends'[i].Healthy = backends[i].Healthy
                      /\ stats'.FailedRequests = stats.FailedRequests]_vars

\* a 500 response whose body failed to stream was relayed from a backend that
\* had failed before: the breaker's and the monitor's counts are back at zero
C19_Witness ==
    /\ last.outcome = Outcome("response", StatusInternalServerError, TRUE)
    /\ last.status = StatusInternalServerError
    /\ stats.FailedRequests >= 1
    /\ stats.TotalRequests = stats.FailedRequests + 1
    /\ DOMAIN pool.breakers = {last.backend}
    /\ pool.breakers[last.backend].failures = 0
    /\ monitor.failureCounts[last.backend] = 0
    /\ backends[last.backend].Healthy

\* C20: BreakerPool uniqueness. However concurrent Get(address) calls
\* interleave, at most one Breaker is allocated per address, every Get for an
\* address returns that one, and a stored entry is never removed or replaced.
C20_PoolUniqueness ==
    \A a \in 1..NumBackends :
        /\ Cardinality(made[a]) <= 1
        /\ got[a] \subseteq made[a]
        /\ made[a] # {} => poolIds[a] \in made[a]
        /\ poolIds[a] = NoBreaker => made[a] = {}

\* two goroutines both missed the lookup for one address, and both have
\* returned
C20_Witness ==
    \E a \in 1..NumBackends :
        /\ \A c \in 1..2 : caller[c].pc = "idle" /\ caller[c].address = a
                           /\ caller[c].ret # NoBreaker
        /\ gets = 2
        /\ poolIds[a] # NoBreaker

\* a probe outcome for backend a is recorded in this step
Probed(a) == chkDone'[a] # chkDone[a]

\* what recordSuccess / recordFailure do to the counts of a, and that they
\* leave the counts and flags of the other backends alone
CountsStep(a) ==
    LET c == checker.c
        c2 == checker'.c
    IN /\ chkLast'.ok =>
             /\ c2.failureCounts[a] = 0
             /\ c2.successCounts[a] = c.successCounts[a] + 1
       /\ ~chkLast'.ok =>
             /\ c2.successCounts[a] = 0
             /\ c2.failureCounts[a] = c.failureCounts[a] + 1
       /\ c2.failureCounts[a] = 0 \/ c2.successCounts[a] = 0
       /\ \A b \in (1..NumReported) \ {a} :
             /\ c2.failureCounts[b] = c.failureCounts[b]
             /\ c2.successCounts[b] = c.successCounts[b]
             /\ backends'[b] = backends[b]

\* the checker sets a unhealthy only on a failure that brings the failure
\* count to unhealthyThreshold while a is healthy
UnhealthyStep(a) ==
    (backends[a].Healthy /\ ~backends'[a].Healthy) =>
        /\ ~chkLast'.ok
        /\ checker'.c.failureCounts[a] = checker.c.unhealthyThreshold

\* C21 as stated: active-checker hysteresis. A probe success zeroes the
\* failure count and increments the success count, a probe failure zeroes the
\* success count and increments the failure count, so at most one of the two
\* is non-zero; the checker sets a backend healthy only on a success that
\* brings the success count to healthyThreshold while it is unhealthy, and
\* unhealthy only on a failure that brings the failure count to
\* unhealthyThreshold while it is healthy.
C21_Hysteresis_AsStated ==
    [][\A a \in 1..NumReported :
          Probed(a) =>
             /\ CountsStep(a)
             /\ UnhealthyStep(a)
             /\ (~backends[a].Healthy /\ backends'[a].Healthy) =>
                   /\ chkLast'.ok
                   /\ checker'.c.successCounts[a] = checker.c.healthyThreshold]_vars

\* C21, amended: as stated, except that the success which sets a backend
\* healthy brings the success count to healthyThreshold or beyond: the count
\* keeps growing while the backend is healthy, so after the passive monitor
\* has marked the backend unhealthy one more probe success sets it healthy.
\* Every success that finds the backend unhealthy with the count at
\* healthyThreshold or beyond does set it healthy.
C21_Hysteresis ==
    [][\A a \in 1..NumReported :
          Probed(a) =>
             /\ CountsStep(a)
             /\ UnhealthyStep(a)
             /\ (~backends[a].Healthy /\ backends'[a].Healthy) <=>
                   /\ chkLast'.ok
                   /\ ~backends[a].Healthy
                   /\ checker'.c.successCounts[a] >= checker.c.healthyThreshold]_vars

\* a probe success has set healthy a backend whose success count was already
\* at healthyThreshold (the passive monitor had marked it unhealthy)
C21_Witness ==
    /\ chkLast.address # 0
    /\ chkLast.ok
    /\ ~chkLast.wasHealthy
    /\ backends[chkLast.address].Healthy
    /\ checker.c.successCounts[chkLast.address] > checker.c.healthyThreshold
    /\ checker.c.failureCounts[chkLast.address] = 0

\* C22: checker termination. Once the checker's context is cancelled (by
\* Stop() or by the parent), the loop eventually returns, every probe in
\* flight completing, whether the cancellation arrives before or during the
\* initial sweep, during a later sweep or while a tick is pending; and once it
\* has taken the ctx.Done() case it starts no further sweep and no probe.
C22_CheckerTermination ==
    /\ run.cancelled ~> run.pc = "returned"
    /\ [][run.pc = "returned" => run' = run]_vars

\* the loop has returned after a cancellation, having run a sweep on a tick
\* after the initial one, with every probe it started recorded
C22_Witness ==
    /\ run.pc = "returned"
    /\ run.cancelled
    /\ run.sweeps >= 2
    /\ \A a \in 1..NumReported : chkDone[a] = run.sweeps /\ run.probing[a] = 0

\* request r enters ServeHTTP in this step
Enters(r) == req[r].pc = "idle" /\ req'[r].pc # "idle"

\* C23: failedRequests accounting. FailedRequests grows by exactly one with
\* each request the handler itself answers 502 (no healthy backend, breaker
\* open, the proxied request not built, transport error) and is unchanged by
\* each request whose upstream response is relayed, whatever its status;
\* TotalRequests grows by exactly one with each request entering the handler;
\* no other step changes either; FailedRequests <= TotalRequests always.
C23_FailedRequests ==
    /\ [](stats.FailedRequests <= stats.TotalRequests)
    /\ [][/\ \A r \in 1..NumRequests :
               /\ Enters(r) =>
                     /\ stats'.TotalRequests = stats.TotalRequests + 1
                     /\ stats'.FailedRequests = stats.FailedRequests
               /\ Leaves(r) =>
                     /\ stats'.TotalRequests = stats.TotalRequests
                     /\ (last'.status = StatusBadGateway /\ last'.why # "relayed")
                           => stats'.FailedRequests = stats.FailedRequests + 1
                     /\ last'.why = "relayed"
                           => stats'.FailedRequests = stats.FailedRequests
          /\ (\A r \in 1..NumRequests : ~Enters(r) /\ ~Leaves(r)) =>
                /\ stats'.TotalRequests = stats.TotalRequests
                /\ stats'.FailedRequests = stats.FailedRequests]_vars

\* an upstream response with status 502 has been relayed after the handler
\* answered an earlier request 502 itself: one of the two requests is counted
C23_Witness ==
    /\ last.why = "relayed"
    /\ last.status = StatusBadGateway
    /\ stats.TotalRequests = 2
    /\ stats.FailedRequests = 1
    /\ stats.ActiveRequests = 0

\* MarkHealthy / MarkUnhealthy gave bs2 for bs and address a: the backend
\* set, its order, the addresses, weights and connections are those of bs;
\* the one flag that may differ is that of the first backend whose address
\* is a, and it holds v
MarksOnly(bs, bs2, a, v) ==
    /\ Len(bs2) = Len(bs)
    /\ \A i \in 1..Len(bs) :
          /\ bs2[i].Address = bs[i].Address
          /\ bs2[i].Weight = bs[i].Weight
          /\ bs2[i].Connections = bs[i].Connections
          /\ bs2[i].Healthy # bs[i].Healthy =>
                /\ bs[i].Address = a
                /\ \A j \in 1..(i - 1) : bs[j].Address # a
          /\ (bs[i].Address = a /\ \A j \in 1..(i - 1) : bs[j].Address # a)
                => bs2[i].Healthy = v
    /\ (\A i \in 1..Len(bs) : bs[i].Address # a) => bs2 = bs

\* C24: health marking by address. In every reachable state of the balancer
\* and for every address a, in the backend set or not: MarkUnhealthy(a) twice
\* leaves the same state as once, likewise MarkHealthy(a); each changes only
\* the healthy flag of the backend whose address is a (the first one when
\* two have it), setting it to false / true; with an address no backend has
\* nothing changes; the backend set, its order, the addresses, weights and
\* connections stay as they are.
C24_MarkByAddress ==
    \A a \in 1..(NumBackends + 1) :
        LET u == MarkUnhealthy(backends, a)
            h == MarkHealthy(backends, a)
        IN /\ MarkUnhealthy(u, a) = u
           /\ MarkHealthy(h, a) = h
           /\ MarksOnly(backends, u, a, FALSE)
           /\ MarksOnly(backends, h, a, TRUE)

\* two backends have the same address, the first of them was marked
\* unhealthy and the second was not, B1 has a connection, and some backend
\* has an address that is not its position
C24_Witness ==
    /\ \E i \in 1..Len(backends) : \E j \in (i + 1)..Len(backends) :
          /\ backends[i].Address = backends[j].Address
          /\ ~backends[i].Healthy
          /\ backends[j].Healthy
          /\ backends[i].Address # i
    /\ backends[B1].Connections >= 1
    /\ ~fresh

\* goroutine g, in Allow, evaluates the breaker in this step
AllowReads(g) ==
    thr[g].op = "Allow" /\ thr[g].pc = "lock" /\ thr'[g].pc = "write"

\* C25: record-then-allow ordering on one breaker. Under concurrent calls,
\* once a RecordFailure() that opened the breaker has returned, every Allow()
\* called afterwards that evaluates the breaker before the timeout has elapsed
\* since that failure returns false; and every Allow() evaluates the breaker
\* as the last completed method left it, never with a transition half made
\* (state assigned, counters or lastFailure not yet).
C25_RecordThenAllow ==
    [][\A g \in 1..NumCallers :
          AllowReads(g) =>
             /\ breaker = committed
             /\ (thr[g].after # -1
                    /\ Since(now, thr[g].after) < breaker.timeout)
                   => ~thr'[g].ret]_vars

\* Allow refused, called after the RecordFailure that opened the breaker had
\* returned, while another goroutine waits for the mutex in RecordFailure
C25_Witness ==
    \E g \in 1..NumCallers, h \in 1..NumCallers :
        /\ thr[g].op = "Allow" /\ thr[g].pc = "write"
        /\ thr[g].after # -1
        /\ ~thr[g].ret
        /\ mu = g
        /\ thr[h].op = "RecordFailure" /\ thr[h].pc = "lock"
        /\ breaker.state = StateOpen
        /\ now > breaker.lastFailure

\* C26: round-robin under concurrency. However Next() calls overlap, the
\* calls that found a non-empty healthy subset obtain pairwise distinct idx
\* values, the N of them forming the range [c, c + N) with c the counter
\* before them (0 at construction): none is handed out twice, none is
\* skipped, and the counter is then at c + N; a call that holds idx returns
\* the backend at idx modulo the size of the subset it collected. While the
\* healthy subset is the constructed one, of size H, the numbers of times any
\* two healthy backends were chosen by those calls differ by at most 1.
C26_ConcurrentRoundRobin ==
    /\ \A k \in 1..Len(handed) : handed[k] = k - 1
    /\ current = Len(handed)
    /\ \A g \in 1..NumCallers :
          nx[g].pc = "index" =>
             /\ nx[g].idx \in 0..(Len(handed) - 1)
             /\ \A h \in (1..NumCallers) \ {g} :
                   nx[h].pc = "index" => nx[h].idx # nx[g].idx
             /\ nx[g].ret = nx[g].snap[(nx[g].idx % Len(nx[g].snap)) + 1]
    /\ fresh =>
          \A a \in HealthySet(backends) : \A b \in HealthySet(backends) :
              CountIn(1, Len(log), a) - CountIn(1, Len(log), b) <= 1

\* two calls that overlap hold consecutive idx values, after an earlier call,
\* with two or more healthy backends and the subset as constructed
C26_Witness ==
    /\ \E g \in 1..NumCallers, h \in 1..NumCallers :
          /\ nx[g].pc = "index" /\ nx[h].pc = "index"
          /\ nx[h].idx = nx[g].idx + 1
          /\ nx[g].idx >= 1
    /\ fresh
    /\ Cardinality(HealthySet(backends)) >= 2

\* C27: Open is left only through Allow(). While the breaker is Open,
\* RecordSuccess(), RecordFailure() and the passing of time leave state,
\* failures, successes and lastFailure as they are: the breaker changes only
\* in an Allow() that finds the timeout elapsed since lastFailure, or in
\* Reset(). So lastFailure stays the time of the failure that opened the
\* breaker, later failures do not extend the Open period, and without Allow()
\* or Reset() the breaker stays Open however much time passes.
C27_OpenLeftOnlyByAllow ==
    /\ [](breaker.state = StateOpen => breaker.lastFailure = openedAt)
    /\ [][(breaker.state = StateOpen /\ breaker' # breaker) =>
             /\ now' = now
             /\ brkOp' \in {"Allow", "Reset"}
             /\ brkOp' = "Allow" =>
                   /\ Since(now, breaker.lastFailure) >= breaker.timeout
                   /\ breaker'.state = StateHalfOpen]_vars

\* a RecordFailure() made on the Open breaker, later than the failure that
\* opened it and after the timeout had elapsed, has left it Open with
\* lastFailure as it was
C27_Witness ==
    /\ breaker.state = StateOpen
    /\ brkOp = "RecordFailure"
    /\ brkPre.b.state = StateOpen
    /\ breaker.timeout > 0
    /\ brkPre.now >= openedAt + breaker.timeout
    /\ now > brkPre.now
    /\ breaker.lastFailure = openedAt

\* C28: sweeps do not overlap. A sweep (the initial one or one on a tick)
\* starts only when no probe of an earlier sweep is in flight, so at most one
\* probe per backend address is in flight at any time; every address has had
\* exactly one outcome recorded for each sweep started, bar the probe still
\* in flight, and the counts of an address change only when the one probe of
\* the current sweep for that address ends.
C28_SweepsDoNotOverlap ==
    /\ [](\A a \in 1..NumReported :
             /\ run.probing[a] \in {0, 1}
             /\ chkDone[a] = run.sweeps - run.probing[a])
    /\ [][/\ run'.sweeps # run.sweeps =>
                /\ run'.sweeps = run.sweeps + 1
                /\ \A a \in 1..NumReported :
                      run.probing[a] = 0 /\ run'.probing[a] = 1
          /\ \A a \in 1..NumReported :
                (\/ checker'.c.failureCounts[a] # checker.c.failureCounts[a]
                 \/ checker'.c.successCounts[a] # checker.c.successCounts[a])
                   => /\ run.probing[a] = 1
                      /\ run'.probing[a] = 0
                      /\ chkDone'[a] = run.sweeps]_vars

\* during the second sweep the ticker has fired again: one probe of the sweep
\* has ended, another is still in flight, and the next sweep waits
C28_Witness ==
    /\ run.pc = "sweep"
    /\ run.sweeps = 2
    /\ run.tick
    /\ \E a \in 1..NumReported, b \in 1..NumReported :
          /\ run.probing[a] = 1 /\ chkDone[a] = 1
          /\ run.probing[b] = 0 /\ chkDone[b] = 2

\* request r goes through breaker.Allow() in this step
Admits(r) == req[r].pc = "admit" /\ req'[r].pc # "admit"

\* C29: the configured breaker timeout is honoured. For every configured
\* circuit_breaker.timeout d > 0, below one second or not a whole number of
\* seconds included, a breaker of the server's pool that is Open refuses
\* (Allow() = false, the request is answered 502) at every instant with
\* now - lastFailure < d, and admits only from now - lastFailure >= d.
C29_ConfiguredTimeout ==
    [][\A r \in 1..NumRequests :
          (/\ Admits(r)
           /\ config.timeout > 0
           /\ req[r].backend \in DOMAIN pool.breakers
           /\ pool.breakers[req[r].backend].state = StateOpen) =>
             LET b == pool.breakers[req[r].backend]
             IN IF Since(now, b.lastFailure) < config.timeout
                THEN /\ req'[r].pc = "idle"
                     /\ last'.why = "circuit breaker open"
                     /\ pool'.breakers[req[r].backend].state = StateOpen
                ELSE /\ req'[r].pc = "upstream"
                     /\ pool'.breakers[req[r].backend].state = StateHalfOpen]_vars

\* C30: client cancellation. When the client goes away while the upstream
\* call of its request is in flight, the call returns with the context's
\* error: no response is relayed, and on its way out the request decrements
\* ActiveRequests by exactly one and the Connections of the backend it was
\* dispatched to by exactly one, leaving the other backends' Connections
\* alone; with no request left inside, both counters are back at zero.
C30_ClientCancellation ==
    /\ [](Inside = {} =>
             /\ stats.ActiveRequests = 0
             /\ \A i \in 1..Len(backends) : backends[i].Connections = 0)
    /\ [][\A r \in 1..NumRequests :
             (Exits(r, "upstream") /\ last'.outcome.kind = "cancel") =>
                LET a == req[r].backend
                IN /\ last'.status = StatusBadGateway
                   /\ last'.why = "failed to proxy request"
                   /\ stats'.ActiveRequests = stats.ActiveRequests - 1
                   /\ backends'[a].Connections = backends[a].Connections - 1
                   /\ \A i \in (1..Len(backends)) \ {a} :
                         backends'[i].Connections = backends[i].Connections]_vars

\* a request whose client went away has left while another request is still
\* in flight to the same backend: one connection and one active request
\* remain
C30_Witness ==
    /\ last.outcome.kind = "cancel"
    /\ last.backend # None
    /\ backends[last.backend].Connections = 1
    /\ stats.ActiveRequests = 1
    /\ \E r \in 1..NumRequests :
          req[r].pc = "upstream" /\ req[r].backend = last.backend

\* C31: a cancelled upstream call is recorded as a failure. An upstream call
\* that ends because the client's request context was cancelled is recorded
\* exactly like a transport error: one RecordFailure on the chosen backend's
\* breaker, one RecordFailure on the passive monitor for its address, a 502
\* and one more failed request; so failureThreshold such calls in a row on a
\* backend leave its breaker Open and unhealthyThreshold of them leave it
\* marked unhealthy, although the backend never failed.
C31_CancelRecordedAsFailure ==
    [][\A r \in 1..NumRequests :
          Exits(r, "upstream") /\ last'.outcome.kind = "cancel" =>
             LET a == req[r].backend
                 pm == PassiveRecordFailure(monitor, backends, a)
             IN /\ last'.status = StatusBadGateway
                /\ last'.why = "failed to proxy request"
                /\ pool'.breakers[a] = RecordFailure(pool.breakers[a], now)
                /\ OneFailureOn(a)
                /\ monitor' = pm.m
                /\ monitor'.failureCounts[a] = monitor.failureCounts[a] + 1
                /\ \A i \in 1..Len(backends) :
                      backends'[i].Healthy = pm.backends[i].Healthy
                /\ stats'.FailedRequests = stats.FailedRequests + 1
                /\ cancels'[a] = cancels[a] + 1
                /\ cancels'[a] >= pool.breakers[a].failureThreshold =>
                      pool'.breakers[a].state = StateOpen
                /\ cancels'[a] >= monitor.unhealthyThreshold =>
                      ~backends'[a].Healthy]_vars

\* MaxThreshold cancellations in a row, and no other failed request, have
\* opened the breaker of a backend and marked it unhealthy
C31_Witness ==
    /\ last.outcome.kind = "cancel"
    /\ cancels[last.backend] = MaxThreshold
    /\ stats.FailedRequests = MaxThreshold
    /\ pool.failureThreshold = MaxThreshold
    /\ monitor.unhealthyThreshold = MaxThreshold
    /\ pool.breakers[last.backend].state = StateOpen
    /\ ~backends[last.backend].Healthy

\* a probe of the checker changes the health flag of backend a
Restores(a) == ~backends[a].Healthy /\ backends'[a].Healthy

\* C32: the passive count outlives the recovery. The passive monitor's count
\* for an address goes down only when a proxied request to that address
\* succeeds: marking the backend unhealthy leaves the count where the failure
\* put it, and a probe of the active checker, restoring the backend or not,
\* leaves it unchanged. So once the count has reached unhealthyThreshold and
\* the checker has set the backend healthy again, a single further proxy
\* failure, with no proxy success in between, marks it unhealthy at once.
C32_PassiveCountOutlivesRecovery ==
    [][\A a \in 1..NumReported :
          /\ monitor'.failureCounts[a] < monitor.failureCounts[a] =>
                /\ Exits(1, "upstream")
                /\ req[1].backend = a
                /\ last'.outcome.kind = "response"
          /\ ~(\E r \in 1..NumRequests : Exits(r, "upstream")) =>
                monitor' = monitor
          /\ Restores(a) =>
                /\ monitor' = monitor
                /\ checker'.c.successCounts[a] = checker.c.successCounts[a] + 1
          /\ /\ Exits(1, "upstream")
             /\ req[1].backend = a
             /\ last'.outcome.kind = "error"
             => /\ monitor'.failureCounts[a] = monitor.failureCounts[a] + 1
                /\ monitor.failureCounts[a] >= monitor.unhealthyThreshold =>
                      ~backends'[a].Healthy]_vars

\* B1 was marked unhealthy at MaxThreshold proxy failures, a probe restored
\* it, and the next proxy failure marked it again: the count is beyond the
\* threshold
C32_Witness ==
    /\ monitor.unhealthyThreshold = MaxThreshold
    /\ monitor.failureCounts[B1] = MaxThreshold + 1
    /\ last.outcome.kind = "error"
    /\ last.backend = B1
    /\ checker.c.successCounts[B1] >= 1
    /\ checker.c.failureCounts[B1] = 0
    /\ ~backends[B1].Healthy

\* C33: the checker's success count is not reset by a passive marking. The
\* active checker's success count for a backend grows by one with every
\* successful probe, healthy or not, and a marking by the passive monitor
\* leaves the checker's counts as they are. So when the count is already at
\* healthyThreshold or beyond at the moment the passive monitor marks the
\* backend unhealthy, the next single successful probe sets it healthy again,
\* without healthyThreshold successful probes after it became unhealthy; and
\* the checker never sets a backend healthy with its success count below
\* healthyThreshold.
C33_SuccessCountKeptAcrossMark ==
    [][/\ ~(\E a \in 1..NumReported : Probed(a)) => checker' = checker
       /\ \A a \in 1..NumReported :
             Probed(a) /\ chkLast'.ok =>
                LET n == checker.c.successCounts[a]
                    ht == checker.c.healthyThreshold
                IN /\ checker'.c.successCounts[a] = n + 1
                   /\ ~backends[a].Healthy /\ n >= ht => backends'[a].Healthy
                   /\ ~backends[a].Healthy /\ backends'[a].Healthy =>
                         n + 1 >= ht]_vars

\* every probe of B1 so far has succeeded, one more than healthyThreshold of
\* them, and the last one found B1 unhealthy and set it healthy: B1 was
\* marked by the passive monitor after the healthyThreshold-th success, and
\* one success was enough
C33_Witness ==
    /\ checker.c.healthyThreshold >= 2
    /\ chkLast = [address |-> B1, ok |-> TRUE, wasHealthy |-> FALSE]
    /\ chkDone[B1] = checker.c.healthyThreshold + 1
    /\ checker.c.successCounts[B1] = checker.c.healthyThreshold + 1
    /\ backends[B1].Healthy

\* Next() of request r collects only backends healthy at that instant and
\* returns one of those it collected
FromSnapshot(r) ==
    /\ req[r].pc = "next" /\ req'[r].pc = "pick" =>
          \A i \in Range(req'[r].snap) : backends[i].Healthy
    /\ req[r].pc = "pick" /\ req'[r].pc = "admit" =>
          req'[r].backend \in Range(req[r].snap)

\* C34 as stated: Next() under concurrency. Next() guarantees only that the
\* backend it returns was healthy at some instant during the call: the
\* healthy subset is collected before the index is chosen, so a backend
\* marked unhealthy after the collection can still be returned and dispatched
\* to; the requests dispatched to a backend after it was marked unhealthy are
\* no more than the Next() calls in progress at the moment of marking.
C34_StaleSelection_AsStated ==
    /\ [][\A r \in 1..NumRequests : FromSnapshot(r)]_vars
    /\ [](\A a \in 1..NumReported : late[a].sent <= late[a].inNext)

\* C34, amended: as stated, except that the requests dispatched to a backend
\* after it was marked unhealthy are no more than the Next() calls in
\* progress at the moment of marking plus the requests to which Next() had
\* already returned that backend and which were not dispatched yet.
C34_StaleSelection ==
    /\ [][\A r \in 1..NumRequests : FromSnapshot(r)]_vars
    /\ [](\A a \in 1..NumReported :
             late[a].sent <= late[a].inNext + late[a].waiting)

\* a backend was marked unhealthy while one Next() call was in progress and
\* another request held it undispatched, and both requests were dispatched
\* to it afterwards
C34_Witness ==
    \E a \in 1..NumReported :
        /\ ~backends[a].Healthy
        /\ late[a] = [inNext |-> 1, waiting |-> 1, sent |-> 2]
        /\ \A r \in 1..NumRequests :
              req[r].pc = "upstream" /\ req[r].backend = a

\* C35: no advance on nil. A RoundRobin.Next() call that finds no healthy
\* backend returns nil without advancing the rotation counter, so the counter
\* equals the number of Next() calls that returned a backend, and a period
\* with no healthy backend does not shift the rotation: the call after it
\* returns the backend at the position the count of returned backends gives.
C35_NoAdvanceOnNil ==
    /\ [](current = rotation.served)
    /\ [][Len(log') = Len(log) + 1 =>
            LET ret == log'[Len(log')]
                healthy == healthyBackends(backends)
            IN /\ ret = None <=> HealthySet(backends) = {}
               /\ ret = None => current' = current
               /\ ret # None =>
                     /\ current' = current + 1
                     /\ ret = healthy[(rotation.served % Len(healthy)) + 1]]_vars

\* Next() returned nil after it had returned backends, and has returned a
\* backend again since, out of two or more healthy ones
C35_Witness ==
    /\ rotation.nilAt >= 1
    /\ rotation.served > rotation.nilAt
    /\ log # <<>>
    /\ LastRet # None
    /\ Cardinality(HealthySet(backends)) >= 2
====
